---- MODULE Spec2Model ----
(***************************************************************************)
(* Model of the .rm line-format decoder of rmapi: the V6 tagged-block      *)
(* parser (encoding/rm, v6.go), the conversion of the parsed Rm into the   *)
(* rmconvert Page, and the older pattern-scanning parser of rmconvert.     *)
(*                                                                         *)
(* Bytes are integers 0..255 and a buffer is a sequence of bytes.  A       *)
(* bytes.Reader is a pair (data, pos), pos the 0-based offset of the next  *)
(* byte.  A uint64 is the set of its 1-bits (a subset of 0..63), so that   *)
(* shifts past bit 63 lose bits as they do in Go.  A float32 is the record *)
(* [s, e, m] of its IEEE-754 sign, exponent and mantissa fields.           *)
(***************************************************************************)
EXTENDS Integers, Sequences, FiniteSets, TLC

\* ------------------------------------------------------------------------
\* Errors (Go error values, by name)
\* ------------------------------------------------------------------------
NoErr == "nil"
EOF == "EOF"
ErrUnexpectedEOF == "unexpected EOF"
ErrVarintOverflow == "varint overflow"
ErrUnexpectedTag == "unexpected tag"
ErrFileTooSmall == "file too small"
ErrNotV6 == "not a v6 file"
ErrUnknownHeader == "Unknown header"
ErrReadHeader == "failed to read header"
ErrInvalidHeader == "invalid header"
ErrNotEnoughData == "not enough data"
ErrInvalidStroke == "invalid stroke parameters"

\* ------------------------------------------------------------------------
\* Constants of the V6 format
\* ------------------------------------------------------------------------
HeaderLen == 43
rmHeaderSize == 43

Sp10 == <<32, 32, 32, 32, 32, 32, 32, 32, 32, 32>>
\* "reMarkable .lines file, version="
HeaderStem ==
  <<114, 101, 77, 97, 114, 107, 97, 98, 108, 101, 32, 46, 108, 105, 110, 101,
    115, 32, 102, 105, 108, 101, 44, 32, 118, 101, 114, 115, 105, 111, 110, 61>>
HEADER_V6 == HeaderStem \o <<54>> \o Sp10
HeaderV6 == HEADER_V6
HeaderV5 == HeaderStem \o <<53>> \o Sp10
HeaderV3 == HeaderStem \o <<51>> \o Sp10
\* "reMarkable .lines file, version=6", without the padding
rmHeader == HeaderStem \o <<54>>

BLOCK_MIGRATION_INFO == 0
BLOCK_PAGE_INFO == 2
BLOCK_TREE_NODE == 4
BLOCK_SCENE_ITEM == 5
BLOCK_TEXT_ITEM == 6
BLOCK_AUTHOR_IDS == 9

TAG_BYTE1 == 1
TAG_BYTE4 == 4
TAG_BYTE8 == 8
TAG_LENGTH4 == 12
TAG_ID == 15

ITEM_TYPE_GROUP == 0
ITEM_TYPE_LINE == 3
ITEM_TYPE_TEXT == 5

\* rm.BrushType and rm.BrushColor
Brush == 0
TiltPencil == 1
BallPoint == 2
Marker == 3
Fineliner == 4
Highlighter == 5
Eraser == 6
SharpPencil == 7
EraseArea == 8
BrushV5 == 12
SharpPencilV5 == 13
TiltPencilV5 == 14
BallPointV5 == 15
MarkerV5 == 16
FinelinerV5 == 17
HighlighterV5 == 18
Black == 0
Grey == 1
White == 2

\* rmconvert tools and colors
ToolFineliner == 0
ToolPencil == 1
ToolBallpoint == 2
ToolMarker == 3
ToolHighlighter == 4
ToolEraser == 5
ColorBlack == 0
ColorGray == 1
ColorWhite == 2

V3 == "V3"
V5 == "V5"
V6 == "V6"

\* ------------------------------------------------------------------------
\* Primitive readers
\* ------------------------------------------------------------------------
Pow2(n) == 2 ^ n

\* the 1-bits of a small non-negative integer
BitsOf(n) == {k \in 0..30 : (n \div Pow2(k)) % 2 = 1}

\* r.Len()
Remaining(data, pos) == IF pos >= Len(data) THEN 0 ELSE Len(data) - pos

\* The error of io.ReadFull / binary.Read for n >= 1 bytes when avail remain:
\* io.EOF when nothing could be read, io.ErrUnexpectedEOF after a partial read.
ReadFullErr(avail, n) ==
  IF avail >= n THEN NoErr
  ELSE IF avail = 0 THEN EOF
  ELSE ErrUnexpectedEOF

\* The error of a run of binary.Read calls of the given sizes, each returning
\* at its first failure.
RECURSIVE SeqReadErr(_, _)
SeqReadErr(avail, sizes) ==
  IF sizes = <<>> THEN NoErr
  ELSE IF avail >= Head(sizes) THEN SeqReadErr(avail - Head(sizes), Tail(sizes))
  ELSE ReadFullErr(avail, Head(sizes))

\* A little-endian uint32.  Values of 2^31 and above are all represented by
\* 2^31 - 1: the decoder only compares such a value (with 0, with the bytes
\* remaining, with the tool and color codes, none of which is that large).
U32At(data, pos) ==
  IF data[pos + 4] >= 128 THEN 2147483647
  ELSE data[pos + 1] + 256 * data[pos + 2] + 65536 * data[pos + 3]
       + 16777216 * data[pos + 4]

U16At(data, pos) == data[pos + 1] + 256 * data[pos + 2]

\* math.Float32frombits of a little-endian uint32
F32At(data, pos) ==
  [s |-> data[pos + 4] \div 128,
   e |-> (data[pos + 4] % 128) * 2 + data[pos + 3] \div 128,
   m |-> (data[pos + 3] % 128) * 65536 + data[pos + 2] * 256 + data[pos + 1]]

\* binary.Read(r, binary.LittleEndian, &u32)
ReadU32(data, pos) ==
  LET e == ReadFullErr(Remaining(data, pos), 4)
  IN IF e # NoErr THEN [err |-> e, val |-> 0, pos |-> pos]
     ELSE [err |-> NoErr, val |-> U32At(data, pos), pos |-> pos + 4]

\* the byte taken whole, its continuation bit included
VarintPayload_NoMask(b) == b
\* b & 0x7F
VarintPayload(b) == b % 128

\* uint64(n) << shift
ShiftLeft64(n, shift) == {shift + k : k \in BitsOf(n)} \cap (0..63)

RECURSIVE readVarintLoop(_, _, _, _)
readVarintLoop(data, pos, result, shift) ==
  IF pos >= Len(data) THEN [err |-> EOF, val |-> {}, pos |-> pos]
  ELSE LET b == data[pos + 1]
           r2 == result \cup ShiftLeft64(VarintPayload(b), shift)
       IN IF b < 128 THEN [err |-> NoErr, val |-> r2, pos |-> pos + 1]
          ELSE IF shift + 7 >= 64
                 THEN [err |-> ErrVarintOverflow, val |-> {}, pos |-> pos + 1]
          ELSE readVarintLoop(data, pos + 1, r2, shift + 7)

readVarint(data, pos) == readVarintLoop(data, pos, {}, 0)

NoId == [Part1 |-> 0, Part2 |-> {}]

\* the id whose first byte is part1 and whose varint was read as v
CrdtIdOf(part1, v) ==
  [err |-> v.err, pos |-> v.pos, id |-> [Part1 |-> part1, Part2 |-> v.val]]

readCrdtId(data, pos) ==
  IF Remaining(data, pos) = 0 THEN [err |-> EOF, pos |-> pos, id |-> NoId]
  ELSE CrdtIdOf(data[pos + 1], readVarint(data, pos + 1))

\* index := int(tagValue >> 4); tagType := byte(tagValue & 0x0F)
TagCheck(v, expectedIndex, expectedType) ==
  IF v.err # NoErr THEN [ok |-> FALSE, err |-> v.err, pos |-> v.pos]
  ELSE IF \/ {k - 4 : k \in {j \in v.val : j >= 4}} # BitsOf(expectedIndex)
          \/ v.val \cap (0..3) # BitsOf(expectedType)
    THEN [ok |-> FALSE, err |-> ErrUnexpectedTag, pos |-> v.pos]
  ELSE [ok |-> TRUE, err |-> NoErr, pos |-> v.pos]

expectTag(data, pos, expectedIndex, expectedType) ==
  TagCheck(readVarint(data, pos), expectedIndex, expectedType)

\* ------------------------------------------------------------------------
\* float32 arithmetic of the version-1 point conversion
\* ------------------------------------------------------------------------
IsNaN(f) == f.e = 255 /\ f.m # 0

F32Zero(s) == [s |-> s, e |-> 0, m |-> 0]
F32Inf(s) == [s |-> s, e |-> 255, m |-> 0]

\* float32(2 * 3.14159): 6.28318 rounded to the nearest float32
TwoPiExp == 129
TwoPiMant == 4788176
TwoPi32 == [s |-> 0, e |-> TwoPiExp, m |-> TwoPiMant]

\* A 24-bit significand q with the bits below it summarised by cmp (-1, 0, 1:
\* below, at, above one half of the last place), rounded to nearest-even and
\* packed with the exponent field e.  A result below the normal range is
\* given as zero: every use truncates it to an integer.
F32Round(s, e, q, cmp) ==
  LET up == cmp > 0 \/ (cmp = 0 /\ q % 2 = 1)
      q1 == IF up THEN q + 1 ELSE q
      e1 == IF q1 = 16777216 THEN e + 1 ELSE e
      m1 == IF q1 = 16777216 THEN 0 ELSE q1 - 8388608
  IN IF e1 >= 255 THEN F32Inf(s)
     ELSE IF e1 <= 0 THEN F32Zero(s)
     ELSE [s |-> s, e |-> e1, m |-> m1]

\* f * 4
F32Mul4(f) ==
  IF f.e = 255 THEN f
  ELSE IF f.e = 0 THEN F32Zero(f.s)
  ELSE IF f.e + 2 >= 255 THEN F32Inf(f.s)
  ELSE [s |-> f.s, e |-> f.e + 2, m |-> f.m]

\* f * 255: the 32-bit product of the significand is kept in two parts
\* (hi * 4096 + lo) and rounded to 24 bits.
F32Mul255(f) ==
  IF f.e = 255 THEN f
  ELSE IF f.e = 0 THEN F32Zero(f.s)
  ELSE LET M == 8388608 + f.m
           lo12 == (M % 4096) * 255
           hi == (M \div 4096) * 255 + lo12 \div 4096
           lo == lo12 % 4096
           d == IF hi >= 524288 THEN 8 ELSE 7
           q == hi * Pow2(12 - d) + lo \div Pow2(d)
           rest == lo % Pow2(d)
           half == Pow2(d - 1)
           cmp == IF rest > half THEN 1 ELSE IF rest = half THEN 0 ELSE -1
       IN F32Round(f.s, f.e + d, q, cmp)

\* floor(num * 2^steps / den) and the remainder, by binary long division
RECURSIVE LongDiv(_, _, _, _)
LongDiv(q, r, den, steps) ==
  IF steps = 0 THEN [q |-> q, r |-> r]
  ELSE IF 2 * r >= den THEN LongDiv(2 * q + 1, 2 * r - den, den, steps - 1)
  ELSE LongDiv(2 * q, 2 * r, den, steps - 1)

\* f / c for a normal positive constant c
F32Div(f, c) ==
  IF f.e = 255 THEN f
  ELSE IF f.e = 0 THEN F32Zero(f.s)
  ELSE LET Ma == 8388608 + f.m
           Mc == 8388608 + c.m
           t == IF Ma >= Mc THEN 23 ELSE 24
           d == LongDiv(Ma \div Mc, Ma % Mc, Mc, t)
           cmp == IF 2 * d.r > Mc THEN 1 ELSE IF 2 * d.r = Mc THEN 0 ELSE -1
       IN F32Round(f.s, f.e - c.e + 127 - (t - 23), d.q, cmp)

Archs == {"amd64", "arm64"}

\* uintN(f) for N = 8, 16.  The compiler converts to int32 (truncating
\* toward zero) and keeps the low N bits.  A value that int32 cannot hold is
\* implementation-dependent: CVTTSS2SL gives 0x80000000 on amd64, FCVTZS
\* saturates on arm64; NaN gives 0x80000000 and 0.
F32ToUint(f, n, arch) ==
  IF IsNaN(f) THEN 0
  ELSE IF f.e = 0 THEN 0
  ELSE LET k == f.e - 150
           M == 8388608 + f.m
       IN IF k >= 8
            THEN IF arch = "arm64" /\ f.s = 0 THEN Pow2(n) - 1 ELSE 0
          ELSE LET mag == IF k >= 0 THEN M * Pow2(k)
                          ELSE IF 0 - k >= 24 THEN 0
                          ELSE M \div Pow2(0 - k)
               IN IF f.s = 0 THEN mag % Pow2(n)
                  ELSE (Pow2(n) - (mag % Pow2(n))) % Pow2(n)

\* float32(n) for 0 <= n < 2^16
RECURSIVE TopBit(_)
TopBit(n) == IF n <= 1 THEN 0 ELSE 1 + TopBit(n \div 2)

F32FromUint(n) ==
  IF n = 0 THEN F32Zero(0)
  ELSE LET k == TopBit(n)
       IN [s |-> 0, e |-> 127 + k, m |-> (n - Pow2(k)) * Pow2(23 - k)]


\* ------------------------------------------------------------------------
\* The V6 tagged-block parser
\* ------------------------------------------------------------------------
NoBlock == [BlockType |-> 0, MinVersion |-> 0, CurrentVersion |-> 0,
            Size |-> 0, Data |-> <<>>]

\* A make(): count elements are allocated, which need bytes of input would
\* fill, when avail bytes are left in the reader.
Alloc(what, count, need, avail) ==
  [what |-> what, count |-> count, need |-> need, avail |-> avail]

\* Reads the 8-byte block header and then Size bytes of payload, into a
\* buffer made for them: block.Data = make([]byte, block.Size).
parseV6Block(data, pos) ==
  LET hdr == SeqReadErr(Remaining(data, pos), <<4, 1, 1, 1, 1>>)
      size == U32At(data, pos)
      body == IF size > 0 THEN ReadFullErr(Remaining(data, pos + 8), size)
              ELSE NoErr
      made == IF size > 0
                THEN <<Alloc("payload", size, size, Remaining(data, pos + 8))>>
              ELSE <<>>
  IN IF hdr # NoErr
       THEN [err |-> hdr, block |-> NoBlock, pos |-> pos, alloc |-> <<>>]
     ELSE IF body # NoErr
       THEN [err |-> body, block |-> NoBlock, pos |-> pos + 8, alloc |-> made]
     ELSE [err |-> NoErr,
           alloc |-> made,
           block |-> [BlockType |-> data[pos + 8],
                      MinVersion |-> data[pos + 6],
                      CurrentVersion |-> data[pos + 7],
                      Size |-> size,
                      Data |-> SubSeq(data, pos + 9, pos + 8 + size)],
           pos |-> pos + 8 + size]

\* A tagged field of a scene item or of a line: its index, its wire type and
\* the bytes of its value (id: a CRDT id, whose length is read)
Field(index, type, size) == [index |-> index, type |-> type, size |-> size]
SceneItemFields ==
  <<Field(1, TAG_ID, 0), Field(2, TAG_ID, 0), Field(3, TAG_ID, 0),
    Field(4, TAG_ID, 0), Field(5, TAG_BYTE4, 4)>>
LineFields ==
  <<Field(1, TAG_BYTE4, 4), Field(2, TAG_BYTE4, 4), Field(3, TAG_BYTE8, 8),
    Field(4, TAG_BYTE4, 4), Field(5, TAG_LENGTH4, 4)>>

\* The value behind a tag t that was expected: pos is where the value
\* starts, next where it ends.
ValueAfterTag(data, t, f) ==
  IF t.err # NoErr THEN [err |-> t.err, pos |-> t.pos, next |-> t.pos]
  ELSE IF f.type = TAG_ID
    THEN [err |-> readCrdtId(data, t.pos).err, pos |-> t.pos,
          next |-> readCrdtId(data, t.pos).pos]
  ELSE [err |-> ReadFullErr(Remaining(data, t.pos), f.size),
        pos |-> t.pos, next |-> t.pos + f.size]

\* expectTag followed by readCrdtId or by a binary.Read
TaggedField(data, pos, f) ==
  ValueAfterTag(data, expectTag(data, pos, f.index, f.type), f)

\* The tagged fields read one after the other, each returning at its first
\* error: at holds the offsets at which the values start.
RECURSIVE ReadFields(_, _, _, _)
FieldsAfter(data, r, rest, at) ==
  IF r.err # NoErr THEN [err |-> r.err, at |-> at, next |-> r.next]
  ELSE ReadFields(data, r.next, rest, Append(at, r.pos))

ReadFields(data, pos, fields, at) ==
  IF fields = <<>> THEN [err |-> NoErr, at |-> at, next |-> pos]
  ELSE FieldsAfter(data, TaggedField(data, pos, Head(fields)), Tail(fields), at)

\* the point size of version 2 used for every version
PointSize_Always14(version) == 14
\* Points are 14 bytes each in version 2, 24 bytes in version 1
PointSize(version) == IF version = 1 THEN 24 ELSE 14

NoPoint == [X |-> F32Zero(0), Y |-> F32Zero(0), Speed |-> 0, Width |-> 0,
            Direction |-> 0, Pressure |-> 0]

parsePoint(data, pos, version, arch) ==
  IF SeqReadErr(Remaining(data, pos),
                IF version = 1 THEN <<4, 4, 4, 4, 4, 4>> ELSE <<4, 4, 2, 2, 1, 1>>)
     # NoErr
    THEN [err |-> SeqReadErr(Remaining(data, pos),
                             IF version = 1 THEN <<4, 4, 4, 4, 4, 4>>
                             ELSE <<4, 4, 2, 2, 1, 1>>),
          point |-> NoPoint, pos |-> pos]
  ELSE IF version = 1
    THEN [err |-> NoErr,
          point |-> [X |-> F32At(data, pos), Y |-> F32At(data, pos + 4),
                     Speed |-> F32ToUint(F32Mul4(F32At(data, pos + 8)), 16, arch),
                     Width |-> F32ToUint(F32Mul4(F32At(data, pos + 16)), 16, arch),
                     Direction |->
                       F32ToUint(F32Div(F32Mul255(F32At(data, pos + 12)), TwoPi32),
                                 8, arch),
                     Pressure |->
                       F32ToUint(F32Mul255(F32At(data, pos + 20)), 8, arch)],
          pos |-> pos + 24]
  ELSE [err |-> NoErr,
        point |-> [X |-> F32At(data, pos), Y |-> F32At(data, pos + 4),
                   Speed |-> U16At(data, pos + 8),
                   Width |-> U16At(data, pos + 10),
                   Direction |-> data[pos + 13],
                   Pressure |-> data[pos + 14]],
        pos |-> pos + 14]

\* for i := 0; i < numPoints; i++ { parsePoint }
RECURSIVE readPoints(_, _, _, _, _, _)
PointsAfter(data, p, n, version, arch, acc) ==
  IF p.err # NoErr THEN [err |-> p.err, points |-> <<>>, pos |-> p.pos]
  ELSE readPoints(data, p.pos, n - 1, version, arch, Append(acc, p.point))

readPoints(data, pos, n, version, arch, acc) ==
  IF n = 0 THEN [err |-> NoErr, points |-> acc, pos |-> pos]
  ELSE PointsAfter(data, parsePoint(data, pos, version, arch), n, version, arch, acc)

\* A *V6Line is a sequence of at most one line: <<>> is nil.
NilLine(e) == [line |-> <<>>, err |-> e, alloc |-> <<>>]

\* the line of parseLineData once its points pts are read
LineOfPoints(data, at, pts) ==
  IF pts.err # NoErr THEN NilLine(pts.err)
  ELSE [line |-> <<[Tool |-> U32At(data, at[1]),
                    Color |-> U32At(data, at[2]),
                    ThicknessScale |-> SubSeq(data, at[3] + 1, at[3] + 8),
                    StartingLength |-> F32At(data, at[4]),
                    Points |-> pts.points]>>,
        err |-> NoErr,
        alloc |-> <<>>]

\* line.Points = make([]V6Point, numPoints), the reader standing at pos
PointsAlloc(data, pos, pointsLen, version) ==
  Alloc("points", pointsLen \div PointSize(version),
        (pointsLen \div PointSize(version)) * PointSize(version),
        Remaining(data, pos))

\* the result r of parseLineData with the allocation it made
WithAlloc(r, made) == [r EXCEPT !.alloc = <<made>>]

\* parseLineData behind its five tagged fields f: numPoints is pointsLen
\* divided by the point size
LineOfFields(data, f, version, arch) ==
  IF f.err # NoErr THEN NilLine(f.err)
  ELSE WithAlloc(LineOfPoints(data, f.at,
                              readPoints(data, f.next,
                                         U32At(data, f.at[5]) \div PointSize(version),
                                         version, arch, <<>>)),
                 PointsAlloc(data, f.next, U32At(data, f.at[5]), version))

parseLineData(data, pos, version, arch) ==
  LineOfFields(data, ReadFields(data, pos, LineFields, <<>>), version, arch)

\* the deleted-length never looked at
IsDeleted_Never(deletedLength) == FALSE
\* if deletedLength > 0
IsDeleted(deletedLength) == deletedLength > 0

\* parseSceneItemBlock behind the length len of the value subblock: the item
\* type is read, and a line is parsed
\* parseSceneItemBlock reading every item type as a line
SceneItemOfType_AnyType(data, len, blockVersion, arch) ==
  IF len.err # NoErr THEN NilLine(len.err)
  ELSE IF Remaining(data, len.pos) = 0 THEN NilLine(EOF)
  ELSE parseLineData(data, len.pos + 1, blockVersion, arch)

SceneItemOfType(data, len, blockVersion, arch) ==
  IF len.err # NoErr THEN NilLine(len.err)
  ELSE IF Remaining(data, len.pos) = 0 THEN NilLine(EOF)
  ELSE IF data[len.pos + 1] # ITEM_TYPE_LINE THEN NilLine(NoErr)
  ELSE parseLineData(data, len.pos + 1, blockVersion, arch)

\* parseSceneItemBlock behind the tag sub read where index 6 may be
SceneItemValue(data, sub, blockVersion, arch) ==
  IF sub.err # NoErr THEN NilLine(NoErr)
  ELSE SceneItemOfType(data, ReadU32(data, sub.pos), blockVersion, arch)

\* parseSceneItemBlock behind its five leading fields h
SceneItemOfHead(data, h, blockVersion, arch) ==
  IF h.err # NoErr THEN NilLine(h.err)
  ELSE IF IsDeleted(U32At(data, h.at[5])) THEN NilLine(NoErr)
  ELSE IF Remaining(data, h.next) = 0 THEN NilLine(NoErr)
  ELSE SceneItemValue(data, expectTag(data, h.next, 6, TAG_LENGTH4),
                      blockVersion, arch)

parseSceneItemBlock(data, blockVersion, arch) ==
  SceneItemOfHead(data, ReadFields(data, 0, SceneItemFields, <<>>),
                  blockVersion, arch)

\* if err == nil && line != nil { lines = append(lines, *line) }
\* the line put in front of the lines
AppendLine_Front(lines, r) ==
  IF r.err = NoErr /\ r.line # <<>> THEN r.line \o lines ELSE lines

AppendLine(lines, r) ==
  IF r.err = NoErr /\ r.line # <<>> THEN lines \o r.line ELSE lines

\* what parseSceneItemBlock allocated in that iteration
extractAllocs(block, arch) ==
  IF block.BlockType = BLOCK_SCENE_ITEM
    THEN parseSceneItemBlock(block.Data, block.CurrentVersion, arch).alloc
  ELSE <<>>

\* One iteration of the loop of extractLinesFromV6Blocks: the lines after
\* block has been looked at.
\* the loop reading every block in the layout of version 2
extractLine_Version2(lines, block, arch) ==
  IF block.BlockType = BLOCK_SCENE_ITEM
    THEN AppendLine(lines, parseSceneItemBlock(block.Data, 2, arch))
  ELSE lines

extractLine(lines, block, arch) ==
  IF block.BlockType = BLOCK_SCENE_ITEM
    THEN AppendLine(lines,
                    parseSceneItemBlock(block.Data, block.CurrentVersion, arch))
  ELSE lines

mapV6Tool(tool) ==
  CASE tool \in {0, 12} -> BallPointV5
    [] tool \in {1, 14} -> TiltPencilV5
    [] tool \in {2, 15} -> BallPointV5
    [] tool \in {3, 16} -> MarkerV5
    [] tool \in {4, 17} -> FinelinerV5
    [] tool \in {5, 18} -> HighlighterV5
    [] tool = 6 -> Eraser
    [] tool \in {7, 13} -> TiltPencilV5
    [] tool = 8 -> EraseArea
    [] tool = 21 -> BallPointV5
    [] OTHER -> BallPointV5

mapV6Color(color) ==
  CASE color = 0 -> Black
    [] color = 1 -> Grey
    [] color = 2 -> White
    [] OTHER -> Black

\* BrushSize(v6line.ThicknessScale * 2.0): the float64 read from the line,
\* kept as its eight bytes, with the factor applied to it.
BrushSizeOf(thicknessScale) == [f64 |-> thicknessScale, times |-> 2]

convertV6Point(v6p) ==
  [X |-> v6p.X, Y |-> v6p.Y,
   Speed |-> F32FromUint(v6p.Speed),
   Direction |-> F32FromUint(v6p.Direction),
   Width |-> F32FromUint(v6p.Width),
   Pressure |-> F32FromUint(v6p.Pressure)]

convertV6Line(v6line) ==
  [BrushType |-> mapV6Tool(v6line.Tool),
   BrushColor |-> mapV6Color(v6line.Color),
   BrushSize |-> BrushSizeOf(v6line.ThicknessScale),
   Points |-> [i \in 1..Len(v6line.Points) |-> convertV6Point(v6line.Points[i])]]

\* The Rm that ParseV6 builds from the extracted lines: one layer.
RmOfV6Lines(lines) ==
  [Version |-> V6,
   Layers |-> <<[Lines |-> [i \in 1..Len(lines) |-> convertV6Line(lines[i])]]>>]

\* ------------------------------------------------------------------------
\* The flat parser of V3 and V5 (rm.go): layers, lines, points
\* ------------------------------------------------------------------------
ErrCorruptData == "CorruptData"

FlatPointBytes == 24

\* brushType, brushColor, padding, brushSize, pointCount, and the unknown
\* float of V5
FlatLineHeadBytes(v) == IF v = V5 THEN 24 ELSE 20

\* a declared count of records of size bytes each fits the bytes remaining
CountFits(data, pos, count, size) == count <= Remaining(data, pos) \div size

\* pointCount points of six float32 each
RECURSIVE readFlatPoints(_, _, _, _)
readFlatPoints(data, pos, n, acc) ==
  IF n = 0 THEN [err |-> NoErr, points |-> acc, pos |-> pos]
  ELSE IF Remaining(data, pos) < FlatPointBytes
    THEN [err |-> ErrCorruptData, points |-> <<>>, pos |-> pos]
  ELSE readFlatPoints(data, pos + FlatPointBytes, n - 1,
                      Append(acc, [X |-> F32At(data, pos),
                                   Y |-> F32At(data, pos + 4),
                                   Speed |-> F32At(data, pos + 8),
                                   Direction |-> F32At(data, pos + 12),
                                   Width |-> F32At(data, pos + 16),
                                   Pressure |-> F32At(data, pos + 20)]))

\* the line whose head starts at pos, its points pts being read
FlatLineOf(data, pos, pts) ==
  IF pts.err # NoErr THEN [err |-> pts.err, line |-> <<>>, pos |-> pts.pos]
  ELSE [err |-> NoErr,
        line |-> <<[BrushType |-> U32At(data, pos),
                    BrushColor |-> U32At(data, pos + 4),
                    BrushSize |-> F32At(data, pos + 12),
                    Points |-> pts.points]>>,
        pos |-> pts.pos]

readFlatLine(data, pos, v) ==
  IF Remaining(data, pos) < FlatLineHeadBytes(v)
    THEN [err |-> ErrCorruptData, line |-> <<>>, pos |-> pos]
  ELSE IF ~CountFits(data, pos + FlatLineHeadBytes(v),
                     U32At(data, pos + FlatLineHeadBytes(v) - 4), FlatPointBytes)
    THEN [err |-> ErrCorruptData, line |-> <<>>, pos |-> pos + FlatLineHeadBytes(v)]
  ELSE FlatLineOf(data, pos,
                  readFlatPoints(data, pos + FlatLineHeadBytes(v),
                                 U32At(data, pos + FlatLineHeadBytes(v) - 4), <<>>))

RECURSIVE readFlatLines(_, _, _, _, _)
FlatLinesAfter(data, l, n, v, acc) ==
  IF l.err # NoErr THEN [err |-> l.err, lines |-> <<>>, pos |-> l.pos]
  ELSE readFlatLines(data, l.pos, n - 1, v, acc \o l.line)

readFlatLines(data, pos, n, v, acc) ==
  IF n = 0 THEN [err |-> NoErr, lines |-> acc, pos |-> pos]
  ELSE FlatLinesAfter(data, readFlatLine(data, pos, v), n, v, acc)

readFlatLayer(data, pos, v) ==
  IF Remaining(data, pos) < 4
    THEN [err |-> ErrCorruptData, lines |-> <<>>, pos |-> pos]
  ELSE IF ~CountFits(data, pos + 4, U32At(data, pos), FlatLineHeadBytes(v))
    THEN [err |-> ErrCorruptData, lines |-> <<>>, pos |-> pos + 4]
  ELSE readFlatLines(data, pos + 4, U32At(data, pos), v, <<>>)

RECURSIVE readFlatLayers(_, _, _, _, _)
FlatLayersAfter(data, l, n, v, acc) ==
  IF l.err # NoErr THEN [err |-> l.err, layers |-> <<>>, pos |-> l.pos]
  ELSE readFlatLayers(data, l.pos, n - 1, v, Append(acc, [Lines |-> l.lines]))

readFlatLayers(data, pos, n, v, acc) ==
  IF n = 0 THEN [err |-> NoErr, layers |-> acc, pos |-> pos]
  ELSE FlatLayersAfter(data, readFlatLayer(data, pos, v), n, v, acc)

\* the Rm of a V3 or V5 buffer behind its header
parseFlat(data, v) ==
  IF Remaining(data, HeaderLen) < 4
    THEN [err |-> ErrCorruptData, layers |-> <<>>, pos |-> HeaderLen]
  ELSE IF ~CountFits(data, HeaderLen + 4, U32At(data, HeaderLen), 4)
    THEN [err |-> ErrCorruptData, layers |-> <<>>, pos |-> HeaderLen + 4]
  ELSE readFlatLayers(data, HeaderLen + 4, U32At(data, HeaderLen), v, <<>>)

\* ------------------------------------------------------------------------
\* rmconvert: the Page built from a parsed Rm
\* ------------------------------------------------------------------------
PageWidth == 1404
PageHeight == 1872

\* the mapping with the cases of the V3 codes only
mapBrushTypeToTool_V3Only(brushType) ==
  CASE brushType = Fineliner -> ToolFineliner
    [] brushType = TiltPencil -> ToolPencil
    [] brushType = BallPoint -> ToolBallpoint
    [] brushType = Marker -> ToolMarker
    [] brushType = Highlighter -> ToolHighlighter
    [] brushType = Eraser -> ToolEraser
    [] OTHER -> ToolBallpoint

mapBrushTypeToTool(brushType) ==
  CASE brushType \in {Fineliner, FinelinerV5} -> ToolFineliner
    [] brushType \in {TiltPencil, TiltPencilV5} -> ToolPencil
    [] brushType \in {BallPoint, BallPointV5} -> ToolBallpoint
    [] brushType \in {Marker, MarkerV5} -> ToolMarker
    [] brushType \in {Highlighter, HighlighterV5} -> ToolHighlighter
    [] brushType = Eraser -> ToolEraser
    [] OTHER -> ToolBallpoint

mapBrushColorToColor(brushColor) ==
  CASE brushColor = Black -> ColorBlack
    [] brushColor = Grey -> ColorGray
    [] brushColor = White -> ColorWhite
    [] OTHER -> ColorBlack

strokeOfLine(line) ==
  [Tool |-> mapBrushTypeToTool(line.BrushType),
   Color |-> mapBrushColorToColor(line.BrushColor),
   Width |-> line.BrushSize,
   Points |-> [i \in 1..Len(line.Points) |->
                 [X |-> line.Points[i].X, Y |-> line.Points[i].Y,
                  Speed |-> line.Points[i].Speed,
                  Direction |-> line.Points[i].Direction,
                  Width |-> line.Points[i].Width,
                  Pressure |-> line.Points[i].Pressure]]]

\* the strokes of the lines of one layer, the lines without points kept
strokesOfLines_KeepEmpty(lines) == [i \in 1..Len(lines) |-> strokeOfLine(lines[i])]

\* the strokes of the lines of one layer: lines without points are skipped
RECURSIVE strokesOfLines(_)
strokesOfLines(lines) ==
  IF lines = <<>> THEN <<>>
  ELSE IF Len(Head(lines).Points) = 0 THEN strokesOfLines(Tail(lines))
  ELSE <<strokeOfLine(Head(lines))>> \o strokesOfLines(Tail(lines))

RECURSIVE strokesOfLayers(_)
strokesOfLayers(layers) ==
  IF layers = <<>> THEN <<>>
  ELSE strokesOfLines(Head(layers).Lines) \o strokesOfLayers(Tail(layers))

convertRmToPage(rmData) ==
  [Width |-> PageWidth, Height |-> PageHeight,
   Strokes |-> strokesOfLayers(rmData.Layers)]


\* ------------------------------------------------------------------------
\* rmconvert: the pattern-scanning parser behind ParseRM
\* ------------------------------------------------------------------------
\* float32 comparison: a NaN compares false with everything, -0 equals +0
F32Key(f) == (IF f.s = 1 THEN -1 ELSE 1) * (f.e * 8388608 + f.m)
F32Lt(a, b) == ~IsNaN(a) /\ ~IsNaN(b) /\ F32Key(a) < F32Key(b)
F32Le(a, b) == ~IsNaN(a) /\ ~IsNaN(b) /\ F32Key(a) <= F32Key(b)

F32Of100 == [s |-> 0, e |-> 133, m |-> 4718592]
F32Of2000 == [s |-> 0, e |-> 137, m |-> 7995392]
F32Of3000 == [s |-> 0, e |-> 138, m |-> 3899392]

MaxScanTool == 10
MaxScanColor == 10
MaxScanPoints == 10000
MinStrokeBytes == 20
ScanPointBytes == 24

\* for i := uint32(0); i < pointCount && reader.Len() >= 24; i++
RECURSIVE tryParsePoints(_, _, _, _, _)
tryParsePoints(data, pos, i, pointCount, acc) ==
  IF i < pointCount /\ Remaining(data, pos) >= ScanPointBytes
    THEN LET pt == [X |-> F32At(data, pos), Y |-> F32At(data, pos + 4),
                    Speed |-> F32At(data, pos + 8),
                    Direction |-> F32At(data, pos + 12),
                    Width |-> F32At(data, pos + 16),
                    Pressure |-> F32At(data, pos + 20)]
             ok == /\ F32Le(F32Zero(0), pt.X) /\ F32Le(pt.X, F32Of2000)
                   /\ F32Le(F32Zero(0), pt.Y) /\ F32Le(pt.Y, F32Of3000)
         IN tryParsePoints(data, pos + ScanPointBytes, i + 1, pointCount,
                           IF ok THEN Append(acc, pt) ELSE acc)
  ELSE [points |-> acc, pos |-> pos]

\* A *Stroke is a sequence of at most one stroke: <<>> is nil.
tryParseStroke(data, pos) ==
  LET tool == U32At(data, pos)
      color == U32At(data, pos + 4)
      width == F32At(data, pos + 8)
      pointCount == U32At(data, pos + 12)
      pts == tryParsePoints(data, pos + 16, 0, pointCount, <<>>)
  IN IF Remaining(data, pos) < MinStrokeBytes
       THEN [stroke |-> <<>>, err |-> ErrNotEnoughData, pos |-> pos]
     ELSE IF \/ tool > MaxScanTool \/ color > MaxScanColor
             \/ F32Lt(width, F32Zero(0)) \/ F32Lt(F32Of100, width)
             \/ pointCount = 0 \/ pointCount > MaxScanPoints
       THEN [stroke |-> <<>>, err |-> ErrInvalidStroke, pos |-> pos + 16]
     ELSE [stroke |-> <<[Tool |-> tool, Color |-> color, Width |-> width,
                         Points |-> pts.points]>>,
           err |-> NoErr, pos |-> pts.pos]

\* the loop of parseStrokeData without its seek after a failed attempt
StrokeStepOf_NoSeek(t, strokes) ==
  IF t.err # NoErr THEN [strokes |-> strokes, pos |-> t.pos]
  ELSE IF t.stroke # <<>> /\ Len(t.stroke[1].Points) > 0
    THEN [strokes |-> strokes \o t.stroke, pos |-> t.pos]
  ELSE [strokes |-> strokes, pos |-> t.pos]

\* One iteration of the loop of parseStrokeData, t being what tryParseStroke
\* returned: the strokes and the reader offset after it.  A failed attempt
\* seeks one byte past where it stopped.
StrokeStepOf(t, strokes) ==
  IF t.err # NoErr THEN [strokes |-> strokes, pos |-> t.pos + 1]
  ELSE IF t.stroke # <<>> /\ Len(t.stroke[1].Points) > 0
    THEN [strokes |-> strokes \o t.stroke, pos |-> t.pos]
  ELSE [strokes |-> strokes, pos |-> t.pos]

parseStrokeStep(data, pos, strokes) ==
  StrokeStepOf(tryParseStroke(data, pos), strokes)

\* ------------------------------------------------------------------------
\* Input buffers
\* ------------------------------------------------------------------------
MaxBlocks == 2
MaxTruncBlocks == 2
MaxPoints == 2
MaxVarintBits == 2
MaxVarintLen == 10
MaxBrushCode == 20
MaxLayers == 2
MaxFlatLines == 2

LE32(n) == <<n % 256, (n \div 256) % 256, (n \div 65536) % 256, n \div 16777216>>

RECURSIVE Concat(_)
Concat(ss) == IF ss = <<>> THEN <<>> ELSE Head(ss) \o Concat(Tail(ss))

Rep(b, n) == [k \in 1..n |-> b]

SeqsUpTo(S, n) == UNION {[1..k -> S] : k \in 0..n}

\* A block of a test stream.  kind: line (a line item, with extra stray bytes
\* counted in its points length), biglen (a line item whose points length
\* declares 16800 bytes more than the points it holds), tomb (deleted-length 3; at: 0 nothing / 1 a
\* line item / 2 garbage follows), novalue (at: 0 the payload ends / 1
\* another tag follows), group, text, badhead and badline (the tag at
\* position at has a wrong index (how = 0) or a wrong wire type (how = 1)),
\* other (block type at; how: 0 empty payload / 1 the payload of a line / 2
\* nine zero bytes and the bytes of a raw stroke, which the 17-byte hops of
\* the scanning parser reach when the block is the first of the stream),
\* raw (no block: a stroke in the layout the scanning parser looks for; how
\* = 1: its points lie at x = 3000, outside the page), wild (a line item of
\* version 1 whose points hold speed 20000.0, direction 10.0, width -1.0 and
\* pressure 2.0), shortval (a line item behind a value subblock that declares
\* a length of how bytes).
Item(kind, ver, tool, color, npts, extra, at, how) ==
  [kind |-> kind, ver |-> ver, tool |-> tool, color |-> color, npts |-> npts,
   extra |-> extra, at |-> at, how |-> how]

LineA == Item("line", 2, 4, 0, 1, 0, 0, 0)
LineB == Item("line", 1, 17, 1, 2, 0, 0, 0)
TombLine == Item("tomb", 2, 4, 0, 1, 0, 1, 0)
OtherPage == Item("other", 2, 4, 0, 1, 0, BLOCK_PAGE_INFO, 1)
BadHead1 == Item("badhead", 2, 4, 0, 1, 0, 1, 0)
RawStroke == Item("raw", 1, 2, 0, 1, 0, 0, 0)
RawFarStroke == Item("raw", 1, 2, 0, 1, 0, 0, 1)
EmptyLine == Item("line", 2, 4, 0, 0, 0, 0, 0)

ToolColors == {<<4, 0>>, <<17, 1>>, <<1, 2>>, <<6, 0>>}
OtherTypes == {BLOCK_MIGRATION_INFO, BLOCK_PAGE_INFO, BLOCK_TREE_NODE,
               BLOCK_TEXT_ITEM, BLOCK_AUTHOR_IDS, 77}

LineItems ==
  {Item("line", v, tc[1], tc[2], n, 0, t, 0) :
     v \in {1, 2}, tc \in ToolColors, n \in 1..MaxPoints, t \in {0, 1}}
RemainderItems ==
  {Item("line", v, 4, 0, n, x, 0, 0) : v \in {1, 2}, n \in 0..1, x \in {1, 13}}
TombItems == {Item("tomb", 2, 4, 0, 1, 0, a, 0) : a \in 0..2}
NoValueItems ==
  {Item(k, 2, 4, 0, 1, 0, a, 0) : k \in {"novalue"}, a \in {0, 1}}
  \cup {Item(k, 2, 4, 0, 1, 0, 0, 0) : k \in {"group", "text"}}
BadTagItems ==
  {Item(k, v, 4, 0, 1, 0, a, h) :
     k \in {"badhead", "badline"}, v \in {2}, a \in 1..5, h \in {0, 1}}
OtherItems == {Item("other", 2, 4, 0, 1, 0, t, h) : t \in OtherTypes, h \in {0, 1}}
OtherRaw == Item("other", 2, 2, 0, 1, 0, BLOCK_PAGE_INFO, 2)
WildLine == Item("wild", 1, 4, 0, 1, 0, 0, 0)
WildItems == {Item("wild", 1, 4, 0, n, 0, 0, 0) : n \in 1..MaxPoints}
EmptyItems == {Item("line", v, 4, 0, 0, 0, 0, 0) : v \in {1, 2}}
ShortValItems ==
  {Item("shortval", v, 4, 0, n, 0, 0, h) : v \in {1, 2}, n \in 0..1, h \in {0, 1, 30}}
BigLenItems == {Item("biglen", v, 4, 0, n, 0, 0, 0) : v \in {1, 2}, n \in 0..1}

AllItems ==
  LineItems \cup RemainderItems \cup TombItems \cup NoValueItems
  \cup BadTagItems \cup OtherItems \cup EmptyItems \cup BigLenItems
  \cup WildItems \cup ShortValItems
CoreItems ==
  {LineA, LineB, TombLine, OtherPage, BadHead1, Item("line", 2, 4, 0, 1, 1, 0, 0),
   EmptyLine}
TruncItems == {LineA, TombLine, OtherPage}

TagByte(index, type) == <<index * 16 + type>>

\* the tag written at position p of a run of tags, p's type being type
TagAt(i, kind, p, type) ==
  IF i.kind = kind /\ i.at = p
    THEN IF i.how = 0 THEN TagByte(p + 1, type) ELSE TagByte(p, TAG_BYTE1)
  ELSE TagByte(p, type)

HeadBytes(i, deleted) ==
  TagAt(i, "badhead", 1, TAG_ID) \o <<0, 1>>
  \o TagAt(i, "badhead", 2, TAG_ID) \o <<1, 144, 3>>
  \o TagAt(i, "badhead", 3, TAG_ID) \o <<0, 0>>
  \o TagAt(i, "badhead", 4, TAG_ID) \o <<0, 0>>
  \o TagAt(i, "badhead", 5, TAG_BYTE4) \o LE32(deleted)

\* (100, 200) and (150, 250) in turn; speed 10, width 300, direction 127,
\* pressure 127 in the units of version 2, and 2.5, 75.0, 3.14159, 0.5 as
\* the float32 of version 1
PointBytes(ver, j) ==
  (IF j % 2 = 1 THEN <<0, 0, 200, 66, 0, 0, 72, 67>>
   ELSE <<0, 0, 22, 67, 0, 0, 122, 67>>)
  \o (IF ver = 1
        THEN <<0, 0, 32, 64, 208, 15, 73, 64, 0, 0, 150, 66, 0, 0, 0, 63>>
      ELSE <<10, 0, 44, 1, 127, 127>>)

PointsBytes(ver, n) == Concat([j \in 1..n |-> PointBytes(ver, j)])

\* the points of the item i
ItemPoints(i) ==
  IF i.kind = "wild"
    THEN Concat([j \in 1..i.npts |->
                   SubSeq(PointBytes(1, j), 1, 8)
                   \o <<0, 64, 156, 70, 0, 0, 32, 65, 0, 0, 128, 191, 0, 0, 0, 64>>])
  ELSE PointsBytes(i.ver, i.npts)

\* a stroke in the layout tryParseStroke looks for
RawBytes(i) ==
  LE32(i.tool) \o LE32(i.color) \o <<0, 0, 32, 64>> \o LE32(i.npts)
  \o (IF i.kind = "raw" /\ i.how = 1
        THEN Concat([j \in 1..i.npts |->
                       <<0, 128, 59, 69>> \o SubSeq(PointBytes(1, j), 5, 24)])
      ELSE PointsBytes(1, i.npts))

LineBytes(i) ==
  <<ITEM_TYPE_LINE>>
  \o TagAt(i, "badline", 1, TAG_BYTE4) \o LE32(i.tool)
  \o TagAt(i, "badline", 2, TAG_BYTE4) \o LE32(i.color)
  \o TagAt(i, "badline", 3, TAG_BYTE8) \o <<0, 0, 0, 0, 0, 0, 240, 63>>
  \o TagAt(i, "badline", 4, TAG_BYTE4) \o <<0, 0, 0, 0>>
  \o TagAt(i, "badline", 5, TAG_LENGTH4)
  \o LE32(i.npts * (IF i.ver = 1 THEN 24 ELSE 14) + i.extra
          + (IF i.kind = "biglen" THEN 16800 ELSE 0))
  \o ItemPoints(i) \o Rep(7, i.extra)
  \o (IF i.kind = "line" /\ i.at = 1
        THEN TagByte(6, TAG_ID) \o <<1, 5>> \o TagByte(7, TAG_ID) \o <<0, 0>>
      ELSE <<>>)

ValueBytes(sub) == TagByte(6, TAG_LENGTH4) \o LE32(Len(sub)) \o sub

PayloadBytes(i) ==
  CASE i.kind \in {"line", "biglen", "badhead", "badline", "wild"} ->
         HeadBytes(i, 0) \o ValueBytes(LineBytes(i))
    [] i.kind = "shortval" ->
         HeadBytes(i, 0) \o TagByte(6, TAG_LENGTH4) \o LE32(i.how) \o LineBytes(i)
    [] i.kind = "tomb" ->
         HeadBytes(i, 3)
         \o (CASE i.at = 0 -> <<>>
               [] i.at = 1 -> ValueBytes(LineBytes(i))
               [] OTHER -> <<255, 255, 255>>)
    [] i.kind = "novalue" ->
         HeadBytes(i, 0)
         \o (IF i.at = 0 THEN <<>> ELSE TagByte(7, TAG_ID) \o <<0, 0>>)
    [] i.kind = "group" ->
         HeadBytes(i, 0) \o ValueBytes(<<ITEM_TYPE_GROUP>> \o Tail(LineBytes(i)))
    [] i.kind = "text" ->
         HeadBytes(i, 0) \o ValueBytes(<<ITEM_TYPE_TEXT>> \o Tail(LineBytes(i)))
    [] OTHER ->
         CASE i.how = 0 -> <<>>
           [] i.how = 1 -> HeadBytes(i, 0) \o ValueBytes(LineBytes(i))
           [] OTHER -> Rep(0, 9) \o RawBytes(i)

BlockBytes(i) ==
  IF i.kind = "raw" THEN RawBytes(i)
  ELSE LE32(Len(PayloadBytes(i)))
       \o <<0, 1, i.ver, IF i.kind = "other" THEN i.at ELSE BLOCK_SCENE_ITEM>>
       \o PayloadBytes(i)

StreamBytes(hdr, items) == hdr \o Concat([k \in 1..Len(items) |-> BlockBytes(items[k])])

Truncated(bytes, cut) == IF cut < 0 THEN bytes ELSE SubSeq(bytes, 1, cut)

\* Headers: the three literals, and buffers that are none of them
PadChanged(hdr, at, b) == [hdr EXCEPT ![at] = b]
HeaderVariants ==
  {HeaderV3, HeaderV5, HeaderV6}
  \cup {PadChanged(h, at, b) : h \in {HeaderV5, HeaderV6}, at \in {34, 43}, b \in {0, 120}}
  \cup {PadChanged(HeaderV6, 33, 52), PadChanged(HeaderV6, 1, 82), Rep(0, 43)}
  \cup {SubSeq(HeaderV6, 1, n) : n \in {0, 10, 33, 42}}

\* Varints: the base-128 encoding of a value (least significant group first,
\* the top bit set on every byte but the last)
TestBits == {0, 1, 6, 7, 13, 14, 55, 56, 62}
VarintValues == {v \in SUBSET TestBits : Cardinality(v) <= MaxVarintBits}

Max(S) == CHOOSE x \in S : \A y \in S : y <= x
RECURSIVE SumPow2(_)
SumPow2(S) == IF S = {} THEN 0 ELSE LET k == Max(S) IN Pow2(k) + SumPow2(S \ {k})
EncodeVarint(v) ==
  LET n == IF v = {} THEN 1 ELSE Max(v) \div 7 + 1
  IN [i \in 1..n |->
        SumPow2({k \in 0..6 : 7 * (i - 1) + k \in v}) + (IF i < n THEN 128 ELSE 0)]

\* V3 and V5 streams: a line of n points, layers of lines
FlatLine(n) ==
  [brush |-> IF n % 2 = 0 THEN FinelinerV5 ELSE Fineliner, color |-> n % 3,
   npts |-> n]
FlatLines == {FlatLine(n) : n \in 0..MaxPoints}
CoreLayers ==
  {<<>>, <<FlatLine(1)>>, <<FlatLine(0), FlatLine(2)>>,
   <<FlatLine(2), FlatLine(0), FlatLine(1)>>}
FlatLayerSets ==
  {<<l>> : l \in SeqsUpTo(FlatLines, MaxFlatLines)}
  \cup SeqsUpTo(CoreLayers, MaxLayers)

FlatLineBytes(v, l) ==
  LE32(l.brush) \o LE32(l.color) \o LE32(0) \o <<0, 0, 0, 64>>
  \o (IF v = V5 THEN <<0, 0, 0, 0>> ELSE <<>>)
  \o LE32(l.npts) \o PointsBytes(1, l.npts)

FlatLayerBytes(v, layer) ==
  LE32(Len(layer)) \o Concat([k \in 1..Len(layer) |-> FlatLineBytes(v, layer[k])])

FlatBytes(v, layers) ==
  (IF v = V5 THEN HeaderV5 ELSE HeaderV3) \o LE32(Len(layers))
  \o Concat([k \in 1..Len(layers) |-> FlatLayerBytes(v, layers[k])])

Shape(family, hdr, items, cut, bytes, value, code) ==
  [family |-> family, hdr |-> hdr, items |-> items, cut |-> cut,
   bytes |-> bytes, value |-> value, code |-> code]


\* ------------------------------------------------------------------------
\* The decoder as a state machine
\* ------------------------------------------------------------------------
VARIABLES
  entry,    \* the function called on the buffer
  shape,    \* how the buffer was put together
  data,     \* the buffer
  arch,     \* the architecture the program was built for
  pc,       \* where the call is
  version,  \* the dialect detected
  pos,      \* the offset of the reader before the block or stroke it is at
  blocks,   \* parseV6Blocks: the blocks read so far
  idx,      \* extractLinesFromV6Blocks: the next block
  lines,    \* extractLinesFromV6Blocks: the lines so far
  rm,       \* the *Rm returned (<<>>: nil)
  page,     \* the *Page returned (<<>>: nil)
  err,      \* the error returned
  vres,     \* the result of readVarint
  tool,     \* the result of mapBrushTypeToTool
  allocs,   \* the allocations the V6 parser made, in order
  calls,    \* concurrent ParseRMFile calls: the locals of each call
  conv,     \* a call of ConvertRmdocToSearchablePDF / ConvertRmdocToImagePDF
  mg,       \* a run of the mgeta command
  chain,    \* a call of convertRmdocToPdfCLI
  unz       \* a call of extractZip

callVars == <<entry, shape, data, arch, pc, version, pos, blocks, idx, lines,
              rm, page, err, vres, tool, allocs>>

auxVars == <<calls, conv, mg, chain, unz>>

vars == <<callVars, auxVars>>

NoShape == Shape("none", <<>>, <<>>, -1, <<>>, {}, 0)

Start(e, sh, bytes) ==
  /\ entry = e
  /\ shape = sh
  /\ data = bytes
  /\ arch \in Archs
  /\ pc = "start"
  /\ version = ""
  /\ pos = 0
  /\ blocks = <<>>
  /\ idx = 1
  /\ lines = <<>>
  /\ rm = <<>>
  /\ page = <<>>
  /\ err = NoErr
  /\ vres = [err |-> NoErr, val |-> {}, pos |-> 0]
  /\ tool = -1
  /\ allocs = <<>>
  /\ calls = <<>>
  /\ conv = <<>>
  /\ mg = <<>>
  /\ chain = <<>>
  /\ unz = <<>>

StreamShape(hdr, items, cut) == Shape("stream", hdr, items, cut, <<>>, {}, 0)

\* two lines with a block that gives no stroke between them
DroppedBetween ==
  {<<LineB, d, LineA>> : d \in {EmptyLine, TombLine, OtherPage, BadHead1}}

\* whole V6 streams: one block of any kind, up to MaxBlocks core blocks, or
\* two lines around a dropped block
InitStreams ==
  \E items \in {<<i>> : i \in AllItems} \cup SeqsUpTo(CoreItems, MaxBlocks)
                \cup DroppedBetween :
    Start("ParseRMFile", StreamShape(HeaderV6, items, -1),
          StreamBytes(HeaderV6, items))

\* SceneItems without a line (no value subblock, a group, a text) among
\* line items
InitNoValue ==
  \E items \in SeqsUpTo(NoValueItems \cup {LineA, LineB}, MaxBlocks) :
    Start("ParseRMFile", StreamShape(HeaderV6, items, -1),
          StreamBytes(HeaderV6, items))

\* well-formed V6 streams cut at every offset before their end
InitTruncated ==
  \E items \in SeqsUpTo(TruncItems, MaxTruncBlocks) :
    \E cut \in 0..(Len(StreamBytes(HeaderV6, items)) - 1) :
      Start("ParseRMFile", StreamShape(HeaderV6, items, cut),
            Truncated(StreamBytes(HeaderV6, items), cut))

\* every header, in front of nothing, of a line block, of a scannable stroke
InitHeaders ==
  \E e \in {"ParseRMFile", "ParseV6", "ParseRM"}, hdr \in HeaderVariants,
     items \in {<<>>, <<LineA>>, <<RawStroke>>, <<RawFarStroke>>,
                <<RawFarStroke, RawStroke>>, <<OtherRaw>>, <<LineA, OtherRaw>>} :
    Start(e, StreamShape(hdr, items, -1), StreamBytes(hdr, items))

\* varints: encoded values followed by other bytes, and runs of continuation
\* bytes with or without a last byte
InitVarints ==
  \/ \E v \in VarintValues, tail \in {<<>>, <<5>>, <<255, 1>>} :
       Start("readVarint",
             Shape("varint", <<>>, <<>>, -1, EncodeVarint(v), v, 0),
             EncodeVarint(v) \o tail)
  \/ \E c \in {128, 255}, n \in 0..MaxVarintLen,
        last \in {<<>>, <<0>>, <<1>>, <<2>>, <<126>>, <<127>>} :
       Start("readVarint",
             Shape("bytes", <<>>, <<>>, -1, Rep(c, n) \o last, {}, 0),
             Rep(c, n) \o last)

\* V3 and V5 streams, whole and cut at every offset behind the header
InitFlat ==
  \E v \in {V3, V5}, layers \in FlatLayerSets :
    Start("ParseRMFile", Shape("flat", SubSeq(FlatBytes(v, layers), 1, HeaderLen),
                               layers, -1, <<>>, {}, 0),
          FlatBytes(v, layers))

InitFlatTruncated ==
  \E v \in {V3, V5}, layers \in {<<<<FlatLine(1), FlatLine(2)>>>>} :
    \E cut \in HeaderLen..(Len(FlatBytes(v, layers)) - 1) :
      Start("ParseRMFile", Shape("flat", SubSeq(FlatBytes(v, layers), 1, HeaderLen),
                                 layers, cut, <<>>, {}, 0),
            Truncated(FlatBytes(v, layers), cut))

InitBrushes ==
  \E c \in 0..MaxBrushCode :
    Start("mapBrushTypeToTool", Shape("brush", <<>>, <<>>, -1, <<>>, {}, c), <<>>)

Init ==
  \/ InitStreams
  \/ InitTruncated
  \/ InitHeaders
  \/ InitVarints
  \/ InitBrushes
  \/ InitFlat
  \/ InitFlatTruncated
  \/ InitNoValue

Return(e) ==
  /\ pc' = "done"
  /\ err' = e

\* rm.UnmarshalBinary, called by ParseRMFile: the dialect is detected from
\* the first 43 bytes.  A V6 buffer goes to ParseV6; a V3 or V5 buffer goes
\* to the flat parser of rm.go (pc = "flat").
UnmarshalBinary ==
  /\ entry = "ParseRMFile"
  /\ pc = "start"
  /\ IF Len(data) < HeaderLen
       THEN Return(ErrUnknownHeader) /\ UNCHANGED version
     ELSE LET header == SubSeq(data, 1, HeaderLen)
          IN CASE header = HeaderV6 ->
                    pc' = "ParseV6" /\ version' = V6 /\ UNCHANGED err
               [] header = HeaderV5 ->
                    pc' = "flat" /\ version' = V5 /\ UNCHANGED err
               [] header = HeaderV3 ->
                    pc' = "flat" /\ version' = V3 /\ UNCHANGED err
               [] OTHER -> Return(ErrUnknownHeader) /\ UNCHANGED version
  /\ UNCHANGED <<auxVars, allocs, entry, shape, data, arch, pos, blocks, idx, lines, rm, page,
                 vres, tool>>

\* rm.UnmarshalBinary for a V3 or V5 buffer: the flat parser
UnmarshalFlat ==
  /\ pc = "flat"
  /\ IF parseFlat(data, version).err # NoErr
       THEN Return(parseFlat(data, version).err) /\ UNCHANGED <<rm, pos>>
     ELSE /\ rm' = <<[Version |-> version,
                      Layers |-> parseFlat(data, version).layers]>>
          /\ pos' = parseFlat(data, version).pos
          /\ pc' = "convert"
          /\ UNCHANGED err
  /\ UNCHANGED <<auxVars, allocs, entry, shape, data, arch, version, blocks, idx, lines, page,
                 vres, tool>>

\* ParseV6 up to the reader it creates behind the header
ParseV6 ==
  /\ pc = "ParseV6" \/ (entry = "ParseV6" /\ pc = "start")
  /\ IF Len(data) < HeaderLen THEN Return(ErrFileTooSmall) /\ UNCHANGED pos
     ELSE IF SubSeq(data, 1, HeaderLen) # HeaderV6
            THEN Return(ErrNotV6) /\ UNCHANGED pos
     ELSE pc' = "blocks" /\ pos' = HeaderLen /\ UNCHANGED err
  /\ UNCHANGED <<auxVars, allocs, entry, shape, data, arch, version, blocks, idx, lines, rm,
                 page, vres, tool>>

\* parseV6Blocks: one turn of its loop.  io.EOF from parseV6Block ends the
\* loop as the end of the buffer does; any other error is returned, and
\* ParseV6 returns it.
parseV6Blocks ==
  /\ pc = "blocks"
  /\ IF Remaining(data, pos) > 0
       THEN LET b == parseV6Block(data, pos)
            IN IF b.err = NoErr
                 THEN /\ blocks' = Append(blocks, b.block)
                      /\ pos' = b.pos
                      /\ allocs' = allocs \o b.alloc
                      /\ UNCHANGED <<pc, err>>
               ELSE IF b.err = EOF
                 THEN /\ pc' = "extract"
                      /\ allocs' = allocs \o b.alloc
                      /\ UNCHANGED <<blocks, pos, err>>
               ELSE /\ Return(b.err)
                    /\ allocs' = allocs \o b.alloc
                    /\ UNCHANGED <<blocks, pos>>
     ELSE pc' = "extract" /\ UNCHANGED <<blocks, pos, err, allocs>>
  /\ UNCHANGED <<auxVars, entry, shape, data, arch, version, idx, lines, rm, page, vres,
                 tool>>

\* extractLinesFromV6Blocks: one turn of its loop
extractLinesFromV6Blocks ==
  /\ pc = "extract"
  /\ idx <= Len(blocks)
  /\ lines' = extractLine(lines, blocks[idx], arch)
  /\ allocs' = allocs \o extractAllocs(blocks[idx], arch)
  /\ idx' = idx + 1
  /\ UNCHANGED <<auxVars, entry, shape, data, arch, pc, version, pos, blocks, rm, page,
                 err, vres, tool>>

\* ParseV6 after the lines are extracted: they are converted into one layer
ParseV6Convert ==
  /\ pc = "extract"
  /\ idx > Len(blocks)
  /\ rm' = <<RmOfV6Lines(lines)>>
  /\ pc' = IF entry = "ParseRMFile" THEN "convert" ELSE "done"
  /\ UNCHANGED <<auxVars, allocs, entry, shape, data, arch, version, pos, blocks, idx, lines,
                 page, err, vres, tool>>

\* ParseRMFile after UnmarshalBinary
ConvertRmToPage ==
  /\ pc = "convert"
  /\ page' = <<convertRmToPage(rm[1])>>
  /\ pc' = "done"
  /\ UNCHANGED <<auxVars, allocs, entry, shape, data, arch, version, pos, blocks, idx, lines,
                 rm, err, vres, tool>>

\* ParseRM up to parseStrokesSimplified: 43 bytes are read, and the first
\* len(rmHeader) of them are compared
ParseRM ==
  /\ entry = "ParseRM"
  /\ pc = "start"
  /\ IF Len(data) < rmHeaderSize
       THEN Return(ErrReadHeader) /\ UNCHANGED <<pos, page>>
     ELSE IF SubSeq(data, 1, Len(rmHeader)) # rmHeader
       THEN Return(ErrInvalidHeader) /\ UNCHANGED <<pos, page>>
     ELSE /\ page' = <<[Width |-> PageWidth, Height |-> PageHeight,
                        Strokes |-> <<>>]>>
          /\ pos' = rmHeaderSize
          /\ pc' = "scan"
          /\ UNCHANGED err
  /\ UNCHANGED <<auxVars, allocs, entry, shape, data, arch, version, blocks, idx, lines, rm,
                 vres, tool>>

\* parseStrokeData: one turn of its loop; ParseRM returns the page whatever
\* the scan found
parseStrokeData ==
  /\ pc = "scan"
  /\ IF Remaining(data, pos) > 0
       THEN LET st == parseStrokeStep(data, pos, page[1].Strokes)
            IN /\ page' = <<[page[1] EXCEPT !.Strokes = st.strokes]>>
               /\ pos' = st.pos
               /\ UNCHANGED pc
     ELSE pc' = "done" /\ UNCHANGED <<page, pos>>
  /\ UNCHANGED <<auxVars, allocs, entry, shape, data, arch, version, blocks, idx, lines, rm,
                 err, vres, tool>>

\* readVarint on a reader at the start of the buffer
ReadVarintCall ==
  /\ entry = "readVarint"
  /\ pc = "start"
  /\ vres' = readVarint(data, 0)
  /\ Return(vres'.err)
  /\ UNCHANGED <<auxVars, allocs, entry, shape, data, arch, version, pos, blocks, idx, lines,
                 rm, page, tool>>

MapBrushCall ==
  /\ entry = "mapBrushTypeToTool"
  /\ pc = "start"
  /\ tool' = mapBrushTypeToTool(shape.code)
  /\ pc' = "done"
  /\ UNCHANGED <<auxVars, allocs, entry, shape, data, arch, version, pos, blocks, idx, lines,
                 rm, page, err, vres>>

Next ==
  \/ UnmarshalBinary
  \/ UnmarshalFlat
  \/ ParseV6
  \/ parseV6Blocks
  \/ extractLinesFromV6Blocks
  \/ ParseV6Convert
  \/ ConvertRmToPage
  \/ ParseRM
  \/ parseStrokeData
  \/ ReadVarintCall
  \/ MapBrushCall

Spec == Init /\ [][Next]_vars

\* a turn of the loop of extractLinesFromV6Blocks, as the loop index sees it
ExtractTurn ==
  /\ pc = "extract"
  /\ idx <= Len(blocks)
  /\ idx' = idx + 1

\* the return of the flat parser to UnmarshalBinary, as the call sees it
FlatTurn ==
  /\ pc = "flat"
  /\ pc' \in {"convert", "done"}

\* the steps whose every effect is looked at
PlainStep ==
  \/ UnmarshalBinary
  \/ ParseV6
  \/ parseV6Blocks
  \/ ParseV6Convert
  \/ ConvertRmToPage
  \/ ParseRM
  \/ parseStrokeData
  \/ ReadVarintCall
  \/ MapBrushCall

\* The decoder runs in the goroutine of its caller and waits for nothing: a
\* call that can take a step takes it.  The fairness of the two steps that
\* parse a whole item is stated on the variable that tells the step was
\* taken (the loop index, the position of the call).
LiveSpec ==
  /\ Init
  /\ [][Next]_vars
  /\ WF_vars(PlainStep)
  /\ WF_idx(ExtractTurn)
  /\ WF_pc(FlatTurn)

\* ------------------------------------------------------------------------
\* ParseRMFile calls running concurrently, each over a buffer of its own
\* ------------------------------------------------------------------------
NumCalls == 2
CallIds == 1..NumCalls

\* the locals of a call of ParseRMFile that has not started
NewCall(bytes) ==
  [data |-> bytes, pc |-> "start", version |-> "", pos |-> 0, blocks |-> <<>>,
   idx |-> 1, lines |-> <<>>, rm |-> <<>>, page |-> <<>>, err |-> NoErr]

Fail(st, e) == [st EXCEPT !.pc = "done", !.err = e]

\* rm.UnmarshalBinary: the dialect is detected
StepStart(st) ==
  IF Len(st.data) < HeaderLen THEN Fail(st, ErrUnknownHeader)
  ELSE CASE SubSeq(st.data, 1, HeaderLen) = HeaderV6 ->
              [st EXCEPT !.pc = "ParseV6", !.version = V6]
         [] SubSeq(st.data, 1, HeaderLen) = HeaderV5 ->
              [st EXCEPT !.pc = "flat", !.version = V5]
         [] SubSeq(st.data, 1, HeaderLen) = HeaderV3 ->
              [st EXCEPT !.pc = "flat", !.version = V3]
         [] OTHER -> Fail(st, ErrUnknownHeader)

\* the flat parser returned f
StepFlat(st, f) ==
  IF f.err # NoErr THEN Fail(st, f.err)
  ELSE [st EXCEPT !.rm = <<[Version |-> st.version, Layers |-> f.layers]>>,
                  !.pos = f.pos, !.pc = "convert"]

\* ParseV6: the header checks
StepParseV6(st) ==
  IF Len(st.data) < HeaderLen THEN Fail(st, ErrFileTooSmall)
  ELSE IF SubSeq(st.data, 1, HeaderLen) # HeaderV6 THEN Fail(st, ErrNotV6)
  ELSE [st EXCEPT !.pc = "blocks", !.pos = HeaderLen]

\* parseV6Blocks: parseV6Block returned b
StepBlocks(st, b) ==
  IF b.err = NoErr
    THEN [st EXCEPT !.blocks = Append(st.blocks, b.block), !.pos = b.pos]
  ELSE IF b.err = EOF THEN [st EXCEPT !.pc = "extract"]
  ELSE Fail(st, b.err)

\* One step of a call on its locals st: what UnmarshalBinary, ParseV6,
\* parseV6Blocks, extractLinesFromV6Blocks and convertRmToPage do next.
DecodeStep(st, a) ==
  CASE st.pc = "start" -> StepStart(st)
    [] st.pc = "flat" -> StepFlat(st, parseFlat(st.data, st.version))
    [] st.pc = "ParseV6" -> StepParseV6(st)
    [] st.pc = "blocks" ->
         IF Remaining(st.data, st.pos) > 0
           THEN StepBlocks(st, parseV6Block(st.data, st.pos))
         ELSE [st EXCEPT !.pc = "extract"]
    [] st.pc = "extract" ->
         IF st.idx <= Len(st.blocks)
           THEN [st EXCEPT !.lines = extractLine(st.lines, st.blocks[st.idx], a),
                           !.idx = st.idx + 1]
         ELSE [st EXCEPT !.rm = <<RmOfV6Lines(st.lines)>>, !.pc = "convert"]
    [] st.pc = "convert" ->
         [st EXCEPT !.page = <<convertRmToPage(st.rm[1])>>, !.pc = "done"]
    [] OTHER -> st

\* the locals a call works on, with one line slice for all the calls
LocalsOf_SharedLines(c) == [calls[c] EXCEPT !.lines = calls[1].lines]
\* the locals a call works on: every variable of the decoder is declared
\* in the function that uses it
LocalsOf(c) == calls[c]

\* a call running alone, to its end
RECURSIVE RunAlone(_, _)
RunAlone(st, a) == IF st.pc = "done" THEN st ELSE RunAlone(DecodeStep(st, a), a)

\* the buffers of the calls
ConcBuffers ==
  {StreamBytes(HeaderV6, <<LineA, LineB>>),
   StreamBytes(HeaderV6, <<TombLine, LineA>>),
   StreamBytes(HeaderV6, <<BadHead1, LineB>>),
   Truncated(StreamBytes(HeaderV6, <<LineA, LineA>>), 150),
   FlatBytes(V5, <<<<FlatLine(1), FlatLine(0)>>>>)}

ConcInit ==
  /\ calls \in [CallIds -> {NewCall(b) : b \in ConcBuffers}]
  /\ entry = "concurrent"
  /\ shape = NoShape
  /\ data = <<>>
  /\ arch \in Archs
  /\ pc = "done"
  /\ version = ""
  /\ pos = 0
  /\ blocks = <<>>
  /\ idx = 1
  /\ lines = <<>>
  /\ rm = <<>>
  /\ page = <<>>
  /\ err = NoErr
  /\ vres = [err |-> NoErr, val |-> {}, pos |-> 0]
  /\ tool = -1
  /\ allocs = <<>>
  /\ conv = <<>>
  /\ mg = <<>>
  /\ chain = <<>>
  /\ unz = <<>>

\* one call takes its next step
CallStep ==
  \E c \in CallIds :
    /\ calls[c].pc # "done"
    /\ calls' = [calls EXCEPT ![c] = DecodeStep(LocalsOf(c), arch)]
    /\ UNCHANGED <<callVars, conv, mg, chain, unz>>

ConcNext == CallStep

ConcSpec == ConcInit /\ [][ConcNext]_vars

\* the variables of the decoder at rest, for the specifications of the
\* callers of the decoder
Idle ==
  /\ entry = "idle"
  /\ shape = NoShape
  /\ data = <<>>
  /\ arch \in Archs
  /\ pc = "done"
  /\ version = ""
  /\ pos = 0
  /\ blocks = <<>>
  /\ idx = 1
  /\ lines = <<>>
  /\ rm = <<>>
  /\ page = <<>>
  /\ err = NoErr
  /\ vres = [err |-> NoErr, val |-> {}, pos |-> 0]
  /\ tool = -1
  /\ allocs = <<>>

\* ------------------------------------------------------------------------
\* rmconvert: from a .rmdoc to a PDF of page images
\* ------------------------------------------------------------------------
MaxPageIds == 2
MaxManifest == 3
DefaultDpi == 300
PageIds == 1..MaxPageIds

\* what the file <id>.rm of the extracted archive is: absent, decodable,
\* not decodable (rendered as an empty page), or not renderable to a PNG
PageKinds == {"missing", "good", "unparsable", "unrenderable"}

RECURSIVE Ascending(_)
Ascending(S) ==
  IF S = {} THEN <<>>
  ELSE Ascending(S \ {Max(S)}) \o <<Max(S)>>

\* getPageOrderAndDocDir: the page ids of the .content file, in its order;
\* when it lists none, the .rm files of the document directory as
\* os.ReadDir lists them (sorted by name)
getPageOrderAndDocDir(doc) ==
  IF ~doc.content THEN [err |-> "no .content file found", order |-> <<>>]
  ELSE IF doc.manifest # <<>> THEN [err |-> NoErr, order |-> doc.manifest]
  ELSE [err |-> NoErr,
        order |-> Ascending({id \in PageIds : doc.files[id] # "missing"})]

\* a call that has not started: fn is the function called, in its arguments
\* and the environment it runs in
NewConv(fn, in) ==
  [fn |-> fn, in |-> in, pc |-> fn, mode |-> "image", dpi |-> in.dpi,
   fellBack |-> FALSE, order |-> <<>>, i |-> 1, pngFiles |-> <<>>,
   ocrResults |-> <<>>, written |-> <<>>, textLayer |-> <<>>, err |-> NoErr]

ConvFail(st, e) == [st EXCEPT !.pc = "done", !.err = e]

EffectiveDpi(dpi) == IF dpi <= 0 THEN DefaultDpi ELSE dpi

\* exec.LookPath failed: the image pipeline is called in place
OnTessMissing_Fail(st) == ConvFail(st, "tesseract not found")
OnTessMissing(st) == [st EXCEPT !.pc = "ConvertRmdocToImagePDF", !.fellBack = TRUE]

\* ConvertRmdocToSearchablePDF up to the check of the tesseract binary
SearchableHead(st) ==
  IF ~st.in.tess THEN OnTessMissing([st EXCEPT !.dpi = EffectiveDpi(st.dpi)])
  ELSE [st EXCEPT !.dpi = EffectiveDpi(st.dpi), !.mode = "ocr", !.pc = "extract"]

\* ConvertRmdocToImagePDF up to the extraction
ImageHead(st) == [st EXCEPT !.dpi = EffectiveDpi(st.dpi), !.pc = "extract"]

\* getPageOrderAndDocDir returned o
OrderStep(st, o) ==
  IF o.err # NoErr THEN ConvFail(st, "failed to get page order")
  ELSE IF Len(o.order) = 0 THEN ConvFail(st, "no pages found in document")
  ELSE [st EXCEPT !.order = o.order, !.pc = "pages"]

\* extractZip, then the page order
ExtractStep(st) ==
  IF ~st.in.doc.zip THEN ConvFail(st, "failed to extract .rmdoc")
  ELSE OrderStep(st, getPageOrderAndDocDir(st.in.doc))

\* the list of PNG files with one more at its front
AppendImage_Front(files, img) == <<img>> \o files
\* pngFiles = append(pngFiles, pngPath)
AppendImage(files, img) == Append(files, img)

\* the PNG of the i-th page of the order: page_<i>.png
PngOf(st, id, kind) ==
  [n |-> st.i, id |-> id, dpi |-> st.dpi, blank |-> kind = "unparsable"]

\* the OCR of the page just rendered
OcrStep(st, id) ==
  IF st.mode = "ocr" /\ id \notin st.in.ocrFail
    THEN [st EXCEPT !.ocrResults = Append(st.ocrResults, [PageNumber |-> st.i])]
  ELSE st

\* one iteration of the loop over the page order
PageStep(st, id, kind) ==
  IF kind \in {"missing", "unrenderable"} THEN [st EXCEPT !.i = st.i + 1]
  ELSE [OcrStep(st, id) EXCEPT !.pngFiles = AppendImage(st.pngFiles, PngOf(st, id, kind)),
                               !.i = st.i + 1]

\* createPDFFromImages, then addOCRTextToPDF when there are OCR results
BuildStep(st) ==
  IF Len(st.pngFiles) = 0 THEN ConvFail(st, "no pages were successfully converted")
  ELSE IF ~st.in.builder THEN ConvFail(st, "failed to create PDF from images")
  ELSE [st EXCEPT !.written = <<[path |-> st.in.pdfPath, images |-> st.pngFiles]>>,
                  !.textLayer = IF st.mode = "ocr" /\ st.in.textLayer
                                  THEN st.ocrResults ELSE <<>>,
                  !.pc = "done"]

ConvStep(st) ==
  CASE st.pc = "ConvertRmdocToSearchablePDF" -> SearchableHead(st)
    [] st.pc = "ConvertRmdocToImagePDF" -> ImageHead(st)
    [] st.pc = "extract" -> ExtractStep(st)
    [] st.pc = "pages" ->
         IF st.i <= Len(st.order)
           THEN PageStep(st, st.order[st.i], st.in.doc.files[st.order[st.i]])
         ELSE [st EXCEPT !.pc = "build"]
    [] st.pc = "build" -> BuildStep(st)
    [] OTHER -> st

RECURSIVE RunConv(_)
RunConv(st) == IF st.pc = "done" THEN st ELSE RunConv(ConvStep(st))

\* the arguments and the environment of a call
ConvInput(doc, v, b) ==
  [doc |-> doc, dpi |-> v.dpi, pdfPath |-> "out/doc.pdf", tess |-> v.tess,
   ocrFail |-> v.ocrFail, builder |-> b, textLayer |-> v.textLayer]

ConvVariant(fn, dpi, tess, ocrFail, textLayer) ==
  [fn |-> fn, dpi |-> dpi, tess |-> tess, ocrFail |-> ocrFail,
   textLayer |-> textLayer]

\* the function called, its dpi, and whether tesseract is found, reads every
\* page and its text can be added to the PDF
ConvVariants ==
  {ConvVariant(fn, dpi, FALSE, {}, TRUE) :
     fn \in {"ConvertRmdocToSearchablePDF", "ConvertRmdocToImagePDF"},
     dpi \in {0, 150}}
  \cup {ConvVariant("ConvertRmdocToSearchablePDF", 150, TRUE, o, x) :
          o \in {{}, {1}}, x \in BOOLEAN}

\* archives that extract and hold a .content file, with every manifest and
\* every state of the page files
PdfInitSound ==
  \E m \in SeqsUpTo(PageIds, MaxManifest), f \in [PageIds -> PageKinds],
     v \in ConvVariants :
    conv = NewConv(v.fn, ConvInput([zip |-> TRUE, content |-> TRUE,
                                    manifest |-> m, files |-> f], v, TRUE))

\* an archive that does not extract, holds no .content file, or a PDF
\* builder that fails
PdfInitFailing ==
  \E z \in BOOLEAN, c \in BOOLEAN, b \in BOOLEAN, m \in {<<>>, <<2, 1>>},
     k \in {"good", "missing"}, v \in ConvVariants :
    /\ ~(z /\ c /\ b)
    /\ conv = NewConv(v.fn, ConvInput([zip |-> z, content |-> c, manifest |-> m,
                                       files |-> [id \in PageIds |-> k]], v, b))

PdfInit ==
  /\ Idle
  /\ calls = <<>>
  /\ mg = <<>>
  /\ chain = <<>>
  /\ unz = <<>>
  /\ (PdfInitSound \/ PdfInitFailing)

ConvertRmdocToSearchablePDF ==
  /\ conv.pc = "ConvertRmdocToSearchablePDF"
  /\ conv' = SearchableHead(conv)
  /\ UNCHANGED <<callVars, calls, mg, chain, unz>>

ConvertRmdocToImagePDF ==
  /\ conv.pc = "ConvertRmdocToImagePDF"
  /\ conv' = ImageHead(conv)
  /\ UNCHANGED <<callVars, calls, mg, chain, unz>>

ExtractRmdoc ==
  /\ conv.pc = "extract"
  /\ conv' = ExtractStep(conv)
  /\ UNCHANGED <<callVars, calls, mg, chain, unz>>

ConvertPages ==
  /\ conv.pc = "pages"
  /\ conv' = ConvStep(conv)
  /\ UNCHANGED <<callVars, calls, mg, chain, unz>>

createPDFFromImages ==
  /\ conv.pc = "build"
  /\ conv' = BuildStep(conv)
  /\ UNCHANGED <<callVars, calls, mg, chain, unz>>

PdfNext ==
  \/ ConvertRmdocToSearchablePDF
  \/ ConvertRmdocToImagePDF
  \/ ExtractRmdoc
  \/ ConvertPages
  \/ createPDFFromImages

PdfSpec == PdfInit /\ [][PdfNext]_vars

\* ------------------------------------------------------------------------
\* shell: the mgeta command
\* ------------------------------------------------------------------------
\* A path is the sequence of its components; "." is the empty sequence.
MaxMtime == 3
Mtimes == 1..MaxMtime

Prefixes(p) == {SubSeq(p, 1, k) : k \in 0..Len(p)}

\* p lies below the directory d
Under(d, p) == Len(p) > Len(d) /\ SubSeq(p, 1, Len(d)) = d

\* path.Dir
DirOf(p) == SubSeq(p, 1, Len(p) - 1)

\* os.Stat on the local files fs
Exists(fs, p) == \E e \in fs : e.path = p
ModTime(fs, p) == (CHOOSE e \in fs : e.path = p).mtime

\* a file written at time t
WriteFile(fs, p, t) ==
  {e \in fs : e.path # p} \cup {[path |-> p, dir |-> FALSE, mtime |-> t]}

\* os.MkdirAll
MkdirAll(fs, d, t) ==
  fs \cup {[path |-> q, dir |-> TRUE, mtime |-> t] :
             q \in {q \in Prefixes(d) : ~Exists(fs, q)}}

\* currentPath[idxDir:]
RelOf(srcName, cur) ==
  IF srcName = "." /\ Len(cur) > 0 THEN Tail(cur) ELSE cur

rmdocPathOf(in, n) == in.target \o RelOf(in.srcName, n.cur) \o <<n.name \o ".rmdoc">>
pdfPathOf(in, n) == in.target \o RelOf(in.srcName, n.cur) \o <<n.name \o ".pdf">>

\* the entries the visitor adds to fileMap for a node, without its directory
VisitKeys_NoDir(in, n) == {rmdocPathOf(in, n), pdfPathOf(in, n)}
\* the entries the visitor adds to fileMap for a node
VisitKeys(in, n) == {rmdocPathOf(in, n), pdfPathOf(in, n), DirOf(rmdocPathOf(in, n))}

\* a run that has not started
NewRun(in) ==
  [in |-> in, pc |-> "mgeta", i |-> 1, fileMap |-> {}, fs |-> in.local,
   now |-> MaxMtime + 1, log |-> <<>>, removed |-> {}, err |-> NoErr,
   run |-> 1, first |-> <<>>, started |-> MaxMtime + 1]

\* flag checks, up to the walk of the device tree
\* (checkNativeConversionSupport returns nil)
MgetaHead(st) ==
  IF st.in.removeDeleted /\ st.in.target = <<>>
    THEN [st EXCEPT !.pc = "done", !.err = "set a folder explicitly with the -o flag"]
  ELSE [st EXCEPT !.pc = "walk", !.fileMap = {st.in.target}]

\* the visitor up to the test for a directory
VisitEnter(st, n) ==
  [st EXCEPT !.fileMap = st.fileMap \cup VisitKeys(st.in, n),
             !.fs = MkdirAll(st.fs, DirOf(rmdocPathOf(st.in, n)), st.now)]

\* currentNode.LastModified(), and time.Now() when it returns an error
LastModifiedOf(st, n) == IF n.lmErr THEN st.now ELSE n.mod

needsUpdate(st, n) ==
  ~st.in.incremental
    \/ ~Exists(st.fs, rmdocPathOf(st.in, n))
    \/ LastModifiedOf(st, n) > ModTime(st.fs, rmdocPathOf(st.in, n))

MtimeOrZero(fs, p) == IF Exists(fs, p) THEN ModTime(fs, p) ELSE 0

LogEntry(st, n, dl) ==
  [i |-> st.i, download |-> dl, convert |-> "not reached",
   rmdocBefore |-> MtimeOrZero(st.fs, rmdocPathOf(st.in, n)),
   pdfBefore |-> MtimeOrZero(st.fs, pdfPathOf(st.in, n)),
   rmdocAtPdf |-> 0]

\* the download of a document: FetchDocument, then os.Chtimes
DownloadStep(st, n) ==
  IF ~needsUpdate(st, n)
    THEN [st EXCEPT !.log = Append(st.log, LogEntry(st, n, "skipped"))]
  ELSE IF ~n.fetchOk
    THEN [st EXCEPT !.log = Append(st.log, LogEntry(st, n, "failed"))]
  ELSE [st EXCEPT !.log = Append(st.log, LogEntry(st, n, "ok")),
                  !.fs = WriteFile(st.fs, rmdocPathOf(st.in, n), LastModifiedOf(st, n))]

needsPdfUpdate(st, n) ==
  ~st.in.incremental
    \/ ~Exists(st.fs, pdfPathOf(st.in, n))
    \/ ~(Exists(st.fs, rmdocPathOf(st.in, n))
          /\ ModTime(st.fs, rmdocPathOf(st.in, n)) <= ModTime(st.fs, pdfPathOf(st.in, n)))

Logged(st, how, n) ==
  [st.log EXCEPT ![Len(st.log)].convert = how,
                 ![Len(st.log)].rmdocAtPdf = MtimeOrZero(st.fs, rmdocPathOf(st.in, n))]

\* the conversion of a document: convertRmdocToPdfCLI
ConvertStep(st, n) ==
  IF st.in.skipConversion THEN [st EXCEPT !.log = Logged(st, "off", n)]
  ELSE IF ~needsPdfUpdate(st, n) THEN [st EXCEPT !.log = Logged(st, "skipped", n)]
  ELSE IF ~(n.convOk /\ Exists(st.fs, rmdocPathOf(st.in, n)))
    THEN [st EXCEPT !.log = Logged(st, "failed", n)]
  ELSE [st EXCEPT !.log = Logged(st, "ok", n),
                  !.fs = WriteFile(st.fs, pdfPathOf(st.in, n), st.now),
                  !.now = st.now + 1]

\* the visitor after the download: a failed download ends the visit
AfterDownload(st, n) ==
  IF st.log[Len(st.log)].download = "failed" THEN st ELSE ConvertStep(st, n)

\* the visitor on the node n
VisitNode(st, n) ==
  IF n.isDir THEN [VisitEnter(st, n) EXCEPT !.i = st.i + 1]
  ELSE [AfterDownload(DownloadStep(VisitEnter(st, n), n), n) EXCEPT !.i = st.i + 1]

\* what filepath.Walk with os.RemoveAll / os.Remove takes away: every path
\* below target that is not in fileMap, with all that lies below it
RemovedBy(st) ==
  {e.path : e \in {e \in st.fs :
     /\ Under(st.in.target, e.path)
     /\ \E q \in Prefixes(e.path) :
          Under(st.in.target, q) /\ q \notin st.fileMap}}

RemoveDeletedStep(st) ==
  IF st.in.removeDeleted
    THEN [st EXCEPT !.removed = RemovedBy(st),
                    !.fs = {e \in st.fs : e.path \notin RemovedBy(st)},
                    !.pc = "done"]
  ELSE [st EXCEPT !.pc = "done"]

\* the device trees, in the order filetree.WalkTree visits their nodes
DirNode(name, cur) ==
  [name |-> name, cur |-> cur, isDir |-> TRUE, mod |-> 1, fetchOk |-> TRUE,
   convOk |-> TRUE, lmErr |-> FALSE]
DocNode(name, cur, mod, f, c) ==
  [name |-> name, cur |-> cur, isDir |-> FALSE, mod |-> mod, fetchOk |-> f,
   convOk |-> c, lmErr |-> FALSE]

Trees(mod, f, c) ==
  {<<DirNode("src", <<>>), DocNode("a", <<"src">>, mod, f, c),
     DirNode("d", <<"src">>), DocNode("b", <<"src", "d">>, 2, TRUE, TRUE)>>,
   <<DirNode("src", <<>>), DocNode("a", <<"src">>, mod, f, c)>>,
   <<DirNode("src", <<>>), DocNode("a", <<"src">>, mod, f, c),
     DirNode("d", <<"src">>)>>}

\* local files left by earlier runs: nothing, or what was since deleted or
\* moved on the device
File(p, t) == [path |-> p, dir |-> FALSE, mtime |-> t]
Dir(p) == [path |-> p, dir |-> TRUE, mtime |-> 1]

Stale(target, rel) ==
  {Dir(target), Dir(target \o rel),
   File(target \o rel \o <<"old.pdf">>, 1),
   Dir(target \o rel \o <<"gone">>),
   File(target \o rel \o <<"gone", "x.rmdoc">>, 1),
   Dir(target \o rel \o <<"d">>),
   File(target \o rel \o <<"d", "b.rmdoc">>, 2),
   File(target \o rel \o <<"d", "b.pdf">>, 3)}

\* the local copy of document a: its .rmdoc and .pdf with mtimes r and p,
\* 0 for a missing file
LocalDoc(target, rel, r, p) ==
  (IF r > 0 THEN {Dir(target), Dir(target \o rel), File(target \o rel \o <<"a.rmdoc">>, r)} ELSE {})
    \cup (IF p > 0 THEN {Dir(target), Dir(target \o rel), File(target \o rel \o <<"a.pdf">>, p)} ELSE {})

MgetaInput(i, d, s, t, src, tree, local) ==
  [incremental |-> i, removeDeleted |-> d, skipConversion |-> s,
   target |-> t, srcName |-> src, nodes |-> tree, local |-> local]

\* runs into the directory out: every flag, every state of the local copy
\* of document a against its remote version, with and without leftovers
MgetaInitOut ==
  \E i \in BOOLEAN, d \in BOOLEAN, s \in BOOLEAN, src \in {"src", "."},
     st \in BOOLEAN, r \in 0..MaxMtime, p \in 0..MaxMtime,
     m \in Mtimes, f \in BOOLEAN, c \in BOOLEAN :
    \E tree \in Trees(m, f, c) :
      mg = NewRun(MgetaInput(i, d, s, <<"out">>, src, tree,
                             LocalDoc(<<"out">>, RelOf(src, <<"src">>), r, p)
                               \cup (IF st THEN Stale(<<"out">>, RelOf(src, <<"src">>))
                                     ELSE {})))

\* runs into the current directory
MgetaInitDot ==
  \E d \in BOOLEAN, s \in BOOLEAN :
    \E tree \in Trees(2, TRUE, TRUE) :
      mg = NewRun(MgetaInput(TRUE, d, s, <<>>, "src", tree,
                             LocalDoc(<<>>, <<"src">>, 1, 0)
                               \cup Stale(<<>>, <<"src">>)))

MgetaInit ==
  /\ Idle
  /\ calls = <<>>
  /\ conv = <<>>
  /\ chain = <<>>
  /\ unz = <<>>
  /\ (MgetaInitOut \/ MgetaInitDot)

mgetaCommand ==
  /\ mg.pc = "mgeta"
  /\ mg' = MgetaHead(mg)
  /\ UNCHANGED <<callVars, calls, conv, chain, unz>>

Visit ==
  /\ mg.pc = "walk"
  /\ mg.i <= Len(mg.in.nodes)
  /\ mg' = VisitNode(mg, mg.in.nodes[mg.i])
  /\ UNCHANGED <<callVars, calls, conv, chain, unz>>

WalkDone ==
  /\ mg.pc = "walk"
  /\ mg.i > Len(mg.in.nodes)
  /\ mg' = [mg EXCEPT !.pc = "remove"]
  /\ UNCHANGED <<callVars, calls, conv, chain, unz>>

RemoveDeleted ==
  /\ mg.pc = "remove"
  /\ mg' = RemoveDeletedStep(mg)
  /\ UNCHANGED <<callVars, calls, conv, chain, unz>>

MgetaNext ==
  \/ mgetaCommand
  \/ Visit
  \/ WalkDone
  \/ RemoveDeleted

MgetaSpec == MgetaInit /\ [][MgetaNext]_vars

\* A second run of the command, later, on the files the first run left and
\* on the same device tree: the log of the first run is kept aside.
RerunStep(st) ==
  [st EXCEPT !.pc = "mgeta", !.i = 1, !.fileMap = {}, !.removed = {},
             !.first = st.log, !.log = <<>>, !.run = 2, !.now = st.now + 1]

\* the document a with a lastModified that does not parse
WithLmErr(tree, e) == [k \in 1..Len(tree) |->
                        IF tree[k].name = "a" THEN [tree[k] EXCEPT !.lmErr = e]
                        ELSE tree[k]]

\* incremental runs: every state of the local copy of document a, a
\* lastModified that parses or not, and the clock of this machine behind or
\* ahead of the times the device reported
RerunInit ==
  /\ Idle
  /\ calls = <<>>
  /\ conv = <<>>
  /\ chain = <<>>
  /\ unz = <<>>
  /\ \E d \in BOOLEAN, s \in BOOLEAN, e \in BOOLEAN, r \in 0..MaxMtime,
        p \in 0..MaxMtime, m \in Mtimes, clock \in {1, MaxMtime + 1} :
       \E tree \in Trees(m, TRUE, TRUE) :
         mg = [NewRun(MgetaInput(TRUE, d, s, <<"out">>, "src", WithLmErr(tree, e),
                                 LocalDoc(<<"out">>, <<"src">>, r, p)))
                 EXCEPT !.now = clock, !.started = clock]

mgetaAgain ==
  /\ mg.pc = "done"
  /\ mg.run = 1
  /\ mg.err = NoErr
  /\ mg' = RerunStep(mg)
  /\ UNCHANGED <<callVars, calls, conv, chain, unz>>

RerunNext ==
  \/ mgetaCommand
  \/ Visit
  \/ WalkDone
  \/ RemoveDeleted
  \/ mgetaAgain

RerunSpec == RerunInit /\ [][RerunNext]_vars


\* ------------------------------------------------------------------------
\* convertRmdocToPdfCLI: the chain of conversion strategies
\* ------------------------------------------------------------------------
\* A call: whether OCR is enabled and, for each conversion the chain may
\* call, whether it returns nil (ok); where the call is, the strategies
\* tried so far, the files left behind and the error returned.
NewChain(enableOCR, ok) ==
  [enableOCR |-> enableOCR, ok |-> ok, pc |-> "convertRmdocToPdfCLI",
   tried |-> <<>>, files |-> {}, err |-> NoErr]

Conversions == {"ocr", "image", "vector", "svg", "external"}

ChainDone(st, e) == [st EXCEPT !.pc = "done", !.err = e]
Tried(st, s) == [st EXCEPT !.tried = Append(st.tried, s)]

\* if enableOCR { ... }
ChainHead(st) ==
  IF st.enableOCR THEN [st EXCEPT !.pc = "ocr"] ELSE [st EXCEPT !.pc = "image"]

\* the error of the OCR rendering returned to the caller
AfterOcr_ReturnError(st) ==
  IF st.ok["ocr"] THEN ChainDone([st EXCEPT !.files = {"pdf"}], NoErr)
  ELSE ChainDone(st, "OCR rendering failed")
\* ConvertRmdocToSearchablePDF returned: nil ends the chain, an error is
\* printed and the chain goes on
AfterOcr(st) ==
  IF st.ok["ocr"] THEN ChainDone([st EXCEPT !.files = {"pdf"}], NoErr)
  ELSE [st EXCEPT !.pc = "image"]

\* ConvertRmdocToImagePDF returned
AfterImage(st) ==
  IF st.ok["image"] THEN ChainDone([st EXCEPT !.files = {"pdf"}], NoErr)
  ELSE [st EXCEPT !.pc = "vector"]

\* ConvertRmdocToPDFWithFallback: ConvertRmdocToPDF returned
AfterVector(st) ==
  IF st.ok["vector"] THEN ChainDone([st EXCEPT !.files = {"pdf"}], NoErr)
  ELSE [st EXCEPT !.pc = "svg"]

\* ConvertRmdocToPDFWithFallback: the SVG export, then the external
\* converter; the SVG is removed once the PDF is there
AfterSvg(st) ==
  IF ~st.ok["svg"] THEN ChainDone(st, "SVG fallback also failed")
  ELSE IF ~st.ok["external"]
    THEN ChainDone([st EXCEPT !.files = {"svg"}],
                   "conversion incomplete: SVG created but PDF conversion failed")
  ELSE ChainDone([st EXCEPT !.files = {"pdf"}], NoErr)

ChainInit ==
  /\ Idle
  /\ calls = <<>>
  /\ conv = <<>>
  /\ mg = <<>>
  /\ unz = <<>>
  /\ \E e \in BOOLEAN, ok \in [Conversions -> BOOLEAN] : chain = NewChain(e, ok)

convertRmdocToPdfCLI ==
  /\ chain.pc = "convertRmdocToPdfCLI"
  /\ chain' = ChainHead(chain)
  /\ UNCHANGED <<callVars, calls, conv, mg, unz>>

TrySearchablePDF ==
  /\ chain.pc = "ocr"
  /\ chain' = AfterOcr(Tried(chain, "ocr"))
  /\ UNCHANGED <<callVars, calls, conv, mg, unz>>

TryImagePDF ==
  /\ chain.pc = "image"
  /\ chain' = AfterImage(Tried(chain, "image"))
  /\ UNCHANGED <<callVars, calls, conv, mg, unz>>

ConvertRmdocToPDFWithFallback ==
  /\ chain.pc = "vector"
  /\ chain' = AfterVector(Tried(chain, "vector"))
  /\ UNCHANGED <<callVars, calls, conv, mg, unz>>

TrySvgFallback ==
  /\ chain.pc = "svg"
  /\ chain' = AfterSvg(Tried(chain, "svg"))
  /\ UNCHANGED <<callVars, calls, conv, mg, unz>>

ChainNext ==
  \/ convertRmdocToPdfCLI
  \/ TrySearchablePDF
  \/ TryImagePDF
  \/ ConvertRmdocToPDFWithFallback
  \/ TrySvgFallback

ChainSpec == ChainInit /\ [][ChainNext]_vars


\* ------------------------------------------------------------------------
\* extractZip
\* ------------------------------------------------------------------------
\* A path is the sequence of its characters.
MaxEntries == 2

\* the elements of a path: what stands between its separators
RECURSIVE SplitOn(_, _, _)
SplitOn(p, cur, acc) ==
  IF p = <<>> THEN (IF cur = <<>> THEN acc ELSE Append(acc, cur))
  ELSE IF Head(p) = "/"
    THEN SplitOn(Tail(p), <<>>, IF cur = <<>> THEN acc ELSE Append(acc, cur))
  ELSE SplitOn(Tail(p), Append(cur, Head(p)), acc)

Elements(p) == SplitOn(p, <<>>, <<>>)

DotDot == <<".", ".">>

\* filepath.Clean on the elements: "." is dropped, ".." drops the element
\* before it, and is itself dropped at the root
RECURSIVE CleanElements(_, _, _)
CleanElements(es, rooted, acc) ==
  IF es = <<>> THEN acc
  ELSE IF Head(es) = <<".">> THEN CleanElements(Tail(es), rooted, acc)
  ELSE IF Head(es) = DotDot
    THEN IF acc # <<>> /\ acc[Len(acc)] # DotDot
           THEN CleanElements(Tail(es), rooted, SubSeq(acc, 1, Len(acc) - 1))
         ELSE IF rooted THEN CleanElements(Tail(es), rooted, acc)
         ELSE CleanElements(Tail(es), rooted, Append(acc, DotDot))
  ELSE CleanElements(Tail(es), rooted, Append(acc, Head(es)))

RECURSIVE JoinElements(_)
JoinElements(es) ==
  IF es = <<>> THEN <<>>
  ELSE IF Len(es) = 1 THEN Head(es)
  ELSE Head(es) \o <<"/">> \o JoinElements(Tail(es))

PathOf(es, rooted) ==
  IF rooted THEN <<"/">> \o JoinElements(es)
  ELSE IF es = <<>> THEN <<".">> ELSE JoinElements(es)

\* filepath.Clean
Clean(p) ==
  IF p = <<>> THEN <<".">>
  ELSE PathOf(CleanElements(Elements(p), p[1] = "/", <<>>), p[1] = "/")

\* filepath.Join of two elements: empty elements are ignored, the result is
\* cleaned
Join(a, b) ==
  IF a = <<>> /\ b = <<>> THEN <<>>
  ELSE IF b = <<>> THEN Clean(a)
  ELSE IF a = <<>> THEN Clean(b)
  ELSE Clean(a \o <<"/">> \o b)

\* filepath.Dir of a clean path
ParentOf(p) == Clean(p \o <<"/">> \o DotDot)

\* strings.HasPrefix
HasPrefix(str, prefix) ==
  Len(str) >= Len(prefix) /\ SubSeq(str, 1, Len(prefix)) = prefix

\* the check with the separator left out of the prefix
UnderDest_NoSeparator(path, dest) == HasPrefix(path, Clean(dest))
\* strings.HasPrefix(path, filepath.Clean(dest)+string(os.PathSeparator))
UnderDest(path, dest) == HasPrefix(path, Clean(dest) \o <<"/">>)

\* the path and the directories above it, the root left out
Ancestors(p) ==
  {PathOf(SubSeq(Elements(p), 1, k), TRUE) : k \in 1..Len(Elements(p))}

KindAt(fs, p) ==
  IF \E f \in fs : f.path = p THEN (CHOOSE f \in fs : f.path = p).kind ELSE "none"

\* os.MkdirAll fails when the path or a directory above it is a file
MkdirAllFails(fs, p) == \E a \in Ancestors(p) : KindAt(fs, a) = "file"

\* os.MkdirAll for the entry by: the directories that are missing are made
MkdirAllOf(fs, p, by) ==
  IF MkdirAllFails(fs, p) THEN fs
  ELSE fs \cup {[path |-> a, kind |-> "dir", by |-> by] :
                  a \in {x \in Ancestors(p) : KindAt(fs, x) = "none"}}

\* os.OpenFile(path, O_WRONLY|O_CREATE|O_TRUNC) for the entry by
OpenFileOf(fs, p, by) ==
  {f \in fs : f.path # p} \cup {[path |-> p, kind |-> "file", by |-> by]}

\* A call: the archive (whether it opens, its entries), the destination, the
\* next entry, the files and directories made so far with the entry they
\* were made for (0: the destination itself), and the error returned.
NewUnzip(opens, entries, dest) ==
  [opens |-> opens, entries |-> entries, dest |-> dest, pc |-> "extractZip",
   i |-> 1, fs |-> {}, err |-> NoErr]

UnzipFail(st, e) == [st EXCEPT !.pc = "done", !.err = e]

\* zip.OpenReader, then os.MkdirAll(dest, 0755)
UnzipHead(st) ==
  IF ~st.opens THEN UnzipFail(st, "zip: not a valid zip file")
  ELSE [st EXCEPT !.fs = MkdirAllOf(st.fs, st.dest, 0), !.pc = "entries"]

\* the entry e at the path p, behind the check of the path: a directory is
\* made, a file is written under its parent directory
WriteEntry(st, e, p) ==
  IF e.dir
    THEN [st EXCEPT !.fs = MkdirAllOf(st.fs, p, st.i), !.i = st.i + 1]
  ELSE IF MkdirAllFails(st.fs, ParentOf(p)) THEN UnzipFail(st, "mkdir: not a directory")
  ELSE IF e.bad = "open" THEN
    UnzipFail([st EXCEPT !.fs = MkdirAllOf(st.fs, ParentOf(p), st.i)],
              "zip: unsupported compression algorithm")
  ELSE IF KindAt(st.fs, p) = "dir" THEN
    UnzipFail([st EXCEPT !.fs = MkdirAllOf(st.fs, ParentOf(p), st.i)],
              "open: is a directory")
  ELSE IF e.bad = "copy" THEN
    UnzipFail([st EXCEPT !.fs = OpenFileOf(MkdirAllOf(st.fs, ParentOf(p), st.i),
                                           p, st.i)],
              "zip: checksum error")
  ELSE [st EXCEPT !.fs = OpenFileOf(MkdirAllOf(st.fs, ParentOf(p), st.i), p, st.i),
                  !.i = st.i + 1]

\* one iteration of the loop over reader.File
EntryStep(st, e) ==
  IF ~UnderDest(Join(st.dest, e.name), st.dest) THEN UnzipFail(st, "invalid file path")
  ELSE WriteEntry(st, e, Join(st.dest, e.name))

\* the names of the entries of the archives
EntryNames ==
  {<<"a">>, <<"d">>, <<"d", "/", "a">>, <<"d", "/">>, <<"/", "a">>, <<".">>,
   DotDot, <<".", ".", "/", "y">>, <<".", ".", "/", "x", "y", "/", "a">>,
   <<"d", "/", ".", ".", "/", ".", ".", "/", "x", "/", "a">>,
   <<"d", "/", ".", ".", "/", ".", ".", "/", ".", ".", "/", "e">>}

\* an entry is a directory when its name ends with a separator, or when its
\* mode says so
ZipEntry(name, dir, bad) ==
  [name |-> name, dir |-> dir \/ name[Len(name)] = "/", bad |-> bad]

ZipEntries ==
  {ZipEntry(n, FALSE, "no") : n \in EntryNames}
  \cup {ZipEntry(<<"d">>, TRUE, "no"), ZipEntry(<<"a">>, FALSE, "open"),
        ZipEntry(<<"a">>, FALSE, "copy")}

Dests == {<<"/", "t", "/", "x">>, <<"/", "x">>}

UnzipInit ==
  /\ Idle
  /\ calls = <<>>
  /\ conv = <<>>
  /\ mg = <<>>
  /\ chain = <<>>
  /\ \E o \in BOOLEAN, es \in SeqsUpTo(ZipEntries, MaxEntries), d \in Dests :
       /\ o \/ es = <<>>
       /\ unz = NewUnzip(o, es, d)

extractZip ==
  /\ unz.pc = "extractZip"
  /\ unz' = UnzipHead(unz)
  /\ UNCHANGED <<callVars, calls, conv, mg, chain>>

ExtractEntry ==
  /\ unz.pc = "entries"
  /\ unz.i <= Len(unz.entries)
  /\ unz' = EntryStep(unz, unz.entries[unz.i])
  /\ UNCHANGED <<callVars, calls, conv, mg, chain>>

ExtractReturn ==
  /\ unz.pc = "entries"
  /\ unz.i > Len(unz.entries)
  /\ unz' = [unz EXCEPT !.pc = "done"]
  /\ UNCHANGED <<callVars, calls, conv, mg, chain>>

UnzipNext ==
  \/ extractZip
  \/ ExtractEntry
  \/ ExtractReturn

UnzipSpec == UnzipInit /\ [][UnzipNext]_vars


\* ------------------------------------------------------------------------
\* Properties
\* ------------------------------------------------------------------------
DecoderEntries == {"ParseRMFile", "ParseV6", "ParseRM"}
V6Entries == {"ParseRMFile", "ParseV6"}
Literals == {HeaderV3, HeaderV5, HeaderV6}

HasLiteralHeader == Len(data) >= 43 /\ SubSeq(data, 1, 43) \in Literals

\* a whole stream behind the V6 header, given to a decoder of V6
FullV6Stream ==
  /\ shape.family = "stream"
  /\ shape.cut = -1
  /\ shape.hdr = HeaderV6
  /\ entry \in V6Entries

\* the offset at which block k of the stream ends
BlockEnd(k) == Len(StreamBytes(shape.hdr, SubSeq(shape.items, 1, k)))

CutInsideBlock ==
  /\ shape.family = "stream"
  /\ shape.cut >= 0
  /\ \E k \in 1..Len(shape.items) : BlockEnd(k - 1) < shape.cut /\ shape.cut < BlockEnd(k)

GoodLine(i) == i.kind = "line" /\ i.extra = 0 /\ i.npts >= 1

\* C1: a buffer reaches a dialect parser, or is decoded without an error,
\* only when its first 43 bytes are one of the three literal headers; every
\* other buffer ends in an error.
C1_OnlyLiteralHeadersAreRouted ==
  (entry \in DecoderEntries /\ ~HasLiteralHeader)
    => /\ pc \in {"start", "done"}
       /\ pc = "done" => err # NoErr

\* C2: a stream cut at an offset inside one of its blocks (inside the block
\* header or inside the payload) is decoded with an error, never into a
\* Document.
C2_TruncatedStreamFails ==
  (CutInsideBlock /\ pc = "done") => err # NoErr

\* C3: a V6 stream with a SceneItem block whose leading tags, or whose line
\* tags, are not the expected ones in order is decoded with an error.
C3_TagMismatchFails ==
  (/\ FullV6Stream
   /\ \E k \in 1..Len(shape.items) : shape.items[k].kind \in {"badhead", "badline"}
   /\ pc = "done")
    => err # NoErr

\* the reader stands at a complete block header that declares more payload
\* bytes than are left behind it
OversizedBlockAtReader ==
  /\ pos >= HeaderLen
  /\ Remaining(data, pos) >= 8
  /\ U32At(data, pos) > Remaining(data, pos) - 8

\* C4: decoding that stopped at a block header whose blockLength exceeds the
\* bytes left behind the header, zero bytes included, returns an error.
C4_OversizedBlockFails ==
  (entry \in V6Entries /\ pc = "done" /\ OversizedBlockAtReader) => err # NoErr

\* C5: in a V6 stream of line items and of SceneItems with deleted-length > 0
\* (followed by nothing, by a line item or by garbage), the deleted items
\* add no line and no error is raised: the lines extracted are those of the
\* line items looked at so far.
C5_DeletedItemYieldsNothing ==
  (/\ FullV6Stream
   /\ \A k \in 1..Len(shape.items) :
        shape.items[k].kind = "tomb" \/ GoodLine(shape.items[k])
   /\ \E k \in 1..Len(shape.items) : shape.items[k].kind = "tomb"
   /\ pc \in {"extract", "convert", "done"})
    => /\ err = NoErr
       /\ Len(lines) = Cardinality({k \in 1..(idx - 1) : GoodLine(shape.items[k])})

C5_Witness ==
  /\ FullV6Stream
  /\ entry = "ParseRMFile"
  /\ shape.items = <<TombLine, LineA>>
  /\ pc = "done"
  /\ err = NoErr
  /\ Len(page[1].Strokes) = 1

\* C6: a V6 stream with a line item whose points length is not a multiple
\* of the point size of its version is decoded with an error.
C6_PointsRemainderFails ==
  (/\ FullV6Stream
   /\ \E k \in 1..Len(shape.items) :
        shape.items[k].kind = "line" /\ shape.items[k].extra > 0
   /\ pc = "done")
    => err # NoErr

\* the bytes readVarint looks at: up to the first byte without the
\* continuation bit
VarintRun(bytes) ==
  IF \E n \in 1..Len(bytes) : bytes[n] < 128
    THEN SubSeq(bytes, 1, CHOOSE n \in 1..Len(bytes) :
                            bytes[n] < 128 /\ \A i \in 1..(n - 1) : bytes[i] >= 128)
  ELSE bytes

\* C7: readVarint returns an error on every byte sequence that carries a
\* payload bit beyond the 64th, a tenth byte with a bit above its lowest one
\* included.
C7_VarintOverflowFails ==
  (/\ shape.family = "bytes"
   /\ pc = "done"
   /\ \E i \in 1..Len(VarintRun(data)), k \in 0..6 :
        k \in BitsOf(data[i] % 128) /\ 7 * (i - 1) + k >= 64)
    => err # NoErr

\* C8: readVarint on the base-128 encoding of a value below 2^63, whatever
\* follows it, returns that value and stops behind the encoding.
C8_VarintRoundTrip ==
  (shape.family = "varint" /\ pc = "done")
    => /\ vres.err = NoErr
       /\ vres.val = shape.value
       /\ vres.pos = Len(shape.bytes)

C8_Witness ==
  /\ shape.family = "varint"
  /\ pc = "done"
  /\ shape.value = {13, 62}
  /\ shape.bytes = <<128, 192, 128, 128, 128, 128, 128, 128, 64>>
  /\ Len(data) > Len(shape.bytes)
  /\ vres = [err |-> NoErr, val |-> {13, 62}, pos |-> 9]

\* the tool and the color a stroke has for the codes of a V6 line
ExpectedTool(code) ==
  CASE code \in {4, 17} -> ToolFineliner
    [] code = 1 -> ToolPencil
    [] code = 6 -> ToolEraser
ExpectedColor(code) ==
  CASE code = 0 -> ColorBlack
    [] code = 1 -> ColorGray
    [] code = 2 -> ColorWhite
ExpectedXY(j) == IF j % 2 = 1 THEN <<100, 200>> ELSE <<150, 250>>

V3CodeOf(code) ==
  <<Brush, SharpPencil, TiltPencil, BallPoint, Marker, Fineliner, Highlighter>>[code - 11]

\* C10: mapBrushTypeToTool gives a code of 12..18 the tool of the V3 code
\* of the same tool, and gives ballpoint to a code of neither range.
C10_BrushRangesAgree ==
  (shape.family = "brush" /\ pc = "done")
    => /\ shape.code \in 12..18 => tool = mapBrushTypeToTool(V3CodeOf(shape.code))
       /\ shape.code \notin (0..8) \cup (12..18) => tool = ToolBallpoint

C10_Witness ==
  /\ shape.family = "brush"
  /\ pc = "done"
  /\ shape.code = 17
  /\ tool = ToolFineliner

\* C11: no page holds a stroke without points: a line that decodes to zero
\* points (a V6 line with an empty or too short points subblock, a V3 or V5
\* line of pointCount 0, a scanned stroke whose points are all discarded) is
\* dropped.
C11_NoEmptyStroke ==
  page # <<>> =>
    \A i \in 1..Len(page[1].Strokes) : Len(page[1].Strokes[i].Points) >= 1

C11_Witness ==
  /\ FullV6Stream
  /\ entry = "ParseRMFile"
  /\ shape.items = <<EmptyLine, LineA>>
  /\ pc = "done"
  /\ Len(rm[1].Layers[1].Lines) = 2
  /\ Len(rm[1].Layers[1].Lines[1].Points) = 0
  /\ Len(page[1].Strokes) = 1

\* a float32 within 0..255
InCanonicalRange(f) == F32Le(F32Zero(0), f) /\ F32Le(f, F32FromUint(255))

\* C12: every point of a decoded page has its speed, width, direction and
\* pressure within 0..255, whichever dialect it was read from.
C12_PointFieldsInCanonicalRange ==
  (entry = "ParseRMFile" /\ page # <<>>) =>
    \A i \in 1..Len(page[1].Strokes) :
      \A j \in 1..Len(page[1].Strokes[i].Points) :
        /\ InCanonicalRange(page[1].Strokes[i].Points[j].Speed)
        /\ InCanonicalRange(page[1].Strokes[i].Points[j].Width)
        /\ InCanonicalRange(page[1].Strokes[i].Points[j].Direction)
        /\ InCanonicalRange(page[1].Strokes[i].Points[j].Pressure)

\* C13: every allocation of the V6 parser (the payload buffer of a block,
\* the point array of a line) is for no more than the bytes left in the
\* reader can fill.
C13_AllocationsAreJustified ==
  \A i \in 1..Len(allocs) : allocs[i].need <= allocs[i].avail

\* the locals of the single call of Spec
Locals ==
  [data |-> data, pc |-> pc, version |-> version, pos |-> pos,
   blocks |-> blocks, idx |-> idx, lines |-> lines, rm |-> rm, page |-> page,
   err |-> err]

\* DecodeStep is the step of the single call of ParseRMFile
DecodeStepAgrees ==
  [][entry = "ParseRMFile" => Locals' = DecodeStep(Locals, arch)]_vars

\* what a call returns
ResultOf(st) == [page |-> st.page, err |-> st.err]

OutcomeOf(st) == [err |-> st.err, written |-> st.written]

\* an archive that extracts, has a manifest and a page that renders
ValidRmdoc(in) ==
  /\ in.doc.zip
  /\ in.doc.content
  /\ \E k \in 1..Len(getPageOrderAndDocDir(in.doc).order) :
       in.doc.files[getPageOrderAndDocDir(in.doc).order[k]] \in {"good", "unparsable"}

\* C15: when tesseract is not found, ConvertRmdocToSearchablePDF ends as
\* ConvertRmdocToImagePDF ends on the same .rmdoc, output path and DPI, and
\* a valid .rmdoc gives a PDF at the output path (the PDF builder working).
C15_FallbackToImagePdf ==
  (conv # <<>> /\ conv.pc = "done"
     /\ conv.fn = "ConvertRmdocToSearchablePDF" /\ ~conv.in.tess) =>
    /\ OutcomeOf(conv) = OutcomeOf(RunConv(NewConv("ConvertRmdocToImagePDF", conv.in)))
    /\ conv.err # "tesseract not found"
    /\ (ValidRmdoc(conv.in) /\ conv.in.builder) =>
         (conv.err = NoErr /\ conv.written # <<>>
            /\ conv.written[1].path = conv.in.pdfPath)

C15_Witness ==
  /\ conv # <<>>
  /\ conv.pc = "done"
  /\ conv.fn = "ConvertRmdocToSearchablePDF"
  /\ ~conv.in.tess
  /\ conv.fellBack
  /\ conv.in.dpi = 150
  /\ conv.err = NoErr
  /\ Len(conv.written[1].images) = 2
  /\ conv.written[1].images[1].dpi = 150

\* the positions of the page order whose page exists and converts
ConvertedPositions(in) ==
  {k \in 1..Len(getPageOrderAndDocDir(in.doc).order) :
     in.doc.files[getPageOrderAndDocDir(in.doc).order[k]] \in {"good", "unparsable"}}

\* C16: the images handed to the PDF builder are the pages of the page
\* order that exist and convert, each position once, in the order of the
\* page order.
C16_ImagesFollowPageOrder ==
  (conv # <<>> /\ conv.written # <<>>) =>
    /\ \A a, b \in 1..Len(conv.written[1].images) :
         a < b => conv.written[1].images[a].n < conv.written[1].images[b].n
    /\ {conv.written[1].images[a].n : a \in 1..Len(conv.written[1].images)}
         = ConvertedPositions(conv.in)
    /\ \A a \in 1..Len(conv.written[1].images) :
         conv.written[1].images[a].id
           = getPageOrderAndDocDir(conv.in.doc).order[conv.written[1].images[a].n]

C16_Witness ==
  /\ conv # <<>>
  /\ conv.pc = "done"
  /\ conv.err = NoErr
  /\ conv.in.doc.manifest = <<2, 1, 2>>
  /\ conv.in.doc.files[1] = "missing"
  /\ Len(conv.written[1].images) = 2
  /\ conv.written[1].images[1].n = 1
  /\ conv.written[1].images[2].n = 3

\* the documents an incremental run has visited
IncrementalVisits ==
  IF mg # <<>> /\ mg.in.incremental THEN 1..Len(mg.log) ELSE {}

RemoteOf(k) == mg.in.nodes[mg.log[k].i].mod

\* the download is skipped when the local .rmdoc is newer than the remote
\* version, and tried when it is missing or older
C17_DownloadRule ==
  \A k \in IncrementalVisits :
    /\ (mg.log[k].rmdocBefore > 0 /\ mg.log[k].rmdocBefore > RemoteOf(k))
         => mg.log[k].download = "skipped"
    /\ (mg.log[k].rmdocBefore = 0 \/ mg.log[k].rmdocBefore < RemoteOf(k))
         => mg.log[k].download \in {"ok", "failed"}

\* the conversion is skipped when the local PDF is newer than the .rmdoc
C17_SkipRule ==
  \A k \in IncrementalVisits :
    (mg.log[k].convert # "not reached" /\ mg.log[k].pdfBefore > 0
       /\ mg.log[k].rmdocAtPdf > 0 /\ mg.log[k].pdfBefore > mg.log[k].rmdocAtPdf)
      => mg.log[k].convert \in {"skipped", "off"}

\* the .rmdoc that lies at the local path once the download step is over
RmdocAfterDownload(k) ==
  IF mg.log[k].download = "ok" THEN RemoteOf(k) ELSE mg.log[k].rmdocBefore

\* a document whose PDF is missing or older than the .rmdoc is converted,
\* unless -s is given
C17_ConvertRule ==
  \A k \in IncrementalVisits :
    (mg.i > mg.log[k].i /\ ~mg.in.skipConversion /\ RmdocAfterDownload(k) > 0
       /\ (mg.log[k].pdfBefore = 0 \/ mg.log[k].pdfBefore < RmdocAfterDownload(k)))
      => mg.log[k].convert \in {"ok", "failed"}

\* C17: in incremental mode a download is skipped for a newer local .rmdoc
\* and made for a missing or older one, a conversion is skipped for a newer
\* PDF and made for a missing or older one unless -s is given.
C17_IncrementalRules == C17_DownloadRule /\ C17_SkipRule /\ C17_ConvertRule

\* the paths of the nodes the run has visited
KeptPaths ==
  UNION {{rmdocPathOf(mg.in, mg.in.nodes[k]), pdfPathOf(mg.in, mg.in.nodes[k]),
          DirOf(rmdocPathOf(mg.in, mg.in.nodes[k]))} : k \in 1..(mg.i - 1)}

\* C18: what -d removes lies below the output directory and is no .rmdoc
\* path, .pdf path or containing directory of a visited node; the output
\* directory stays; with -d and the output directory "." nothing runs;
\* without -d nothing is removed.
C18_RemoveOnlyUnvisited ==
  mg # <<>> =>
    /\ \A p \in mg.removed : Under(mg.in.target, p) /\ p \notin KeptPaths
    /\ mg.in.target \notin mg.removed
    /\ (mg.in.removeDeleted /\ mg.in.target = <<>>) =>
         (mg.pc \in {"mgeta", "done"} /\ mg.fs = mg.in.local /\ mg.log = <<>>
            /\ (mg.pc = "done" => mg.err # NoErr))
    /\ ~mg.in.removeDeleted =>
         (mg.removed = {} /\ \A e \in mg.in.local : Exists(mg.fs, e.path))

C18_Witness ==
  /\ mg # <<>>
  /\ mg.pc = "done"
  /\ mg.in.removeDeleted
  /\ Len(mg.in.nodes) = 2
  /\ mg.in.srcName = "src"
  /\ mg.removed = {<<"out", "src", "old.pdf">>, <<"out", "src", "gone">>,
                   <<"out", "src", "gone", "x.rmdoc">>, <<"out", "src", "d">>,
                   <<"out", "src", "d", "b.rmdoc">>, <<"out", "src", "d", "b.pdf">>}
  /\ Exists(mg.fs, <<"out", "src", "a.rmdoc">>)
  /\ Exists(mg.fs, <<"out", "src", "a.pdf">>)
  /\ Exists(mg.fs, <<"out">>)

NoLineKinds == {"novalue", "group", "text"}

\* C19: in a V6 stream of line items and of SceneItems with deleted-length
\* 0 whose value subblock is absent, or is a group or a text, the latter
\* add no line and raise no error, and the page has one stroke for each
\* line item, with its tool and its points.
C19_ItemsWithoutLineAreSkipped ==
  (/\ FullV6Stream
   /\ entry = "ParseRMFile"
   /\ \A k \in 1..Len(shape.items) :
        shape.items[k].kind \in NoLineKinds \/ GoodLine(shape.items[k])
   /\ \E k \in 1..Len(shape.items) : shape.items[k].kind \in NoLineKinds
   /\ pc \in {"extract", "convert", "done"})
    => /\ err = NoErr
       /\ Len(blocks) = Len(shape.items)
       /\ Len(lines) = Cardinality({k \in 1..(idx - 1) : GoodLine(shape.items[k])})
       /\ pc = "done" =>
            /\ page # <<>>
            /\ Len(page[1].Strokes)
                 = Cardinality({k \in 1..Len(shape.items) : GoodLine(shape.items[k])})
            /\ \A n \in 1..Len(page[1].Strokes) :
                 \E k \in 1..Len(shape.items) :
                   /\ GoodLine(shape.items[k])
                   /\ Cardinality({q \in 1..k : GoodLine(shape.items[q])}) = n
                   /\ page[1].Strokes[n].Tool = ExpectedTool(shape.items[k].tool)
                   /\ Len(page[1].Strokes[n].Points) = shape.items[k].npts

C19_Witness ==
  /\ FullV6Stream
  /\ entry = "ParseRMFile"
  /\ Len(shape.items) = 2
  /\ shape.items[1].kind = "group"
  /\ shape.items[2] = LineB
  /\ pc = "done"
  /\ err = NoErr
  /\ Len(page[1].Strokes) = 1
  /\ Len(page[1].Strokes[1].Points) = 2

\* the point j of a line as parsePoint leaves it: the coordinates written,
\* and speed 10, width 300, direction 127, pressure 127 in the units of
\* version 2
ExpectedV6Point(j) ==
  [X |-> F32FromUint(ExpectedXY(j)[1]), Y |-> F32FromUint(ExpectedXY(j)[2]),
   Speed |-> 10, Width |-> 300, Direction |-> 127, Pressure |-> 127]

\* C20: in a V6 stream of line items, the points of each line are read in
\* the layout of the currentVersion of its own block (14 bytes for 2, 24
\* bytes for 1) and counted with the same size: line k has the points
\* written for item k, as many as written, whatever the versions of the
\* other blocks.
C20_PointLayoutFollowsBlockVersion ==
  (/\ FullV6Stream
   /\ \A k \in 1..Len(shape.items) : GoodLine(shape.items[k])
   /\ pc \in {"extract", "convert", "done"})
    => /\ Len(blocks) = Len(shape.items)
       /\ Len(lines) = idx - 1
       /\ \A k \in 1..Len(lines) :
            /\ blocks[k].CurrentVersion = shape.items[k].ver
            /\ Len(lines[k].Points) = shape.items[k].npts
            /\ \A j \in 1..Len(lines[k].Points) :
                 lines[k].Points[j] = ExpectedV6Point(j)

C20_Witness ==
  /\ FullV6Stream
  /\ shape.items = <<LineB, LineA>>
  /\ pc = "done"
  /\ blocks[1].CurrentVersion = 1
  /\ blocks[2].CurrentVersion = 2
  /\ Len(lines[1].Points) = 2
  /\ Len(lines[2].Points) = 1
  /\ lines[1].Points[2] = ExpectedV6Point(2)

\* C21: a version-1 point whose speed is 20000.0 and whose width is -1.0
\* is re-quantized to speed 65535 (80000 clamped) and width 0 (-4 clamped),
\* and its direction and pressure lie in 0..255.
C21_ScaledValuesAreClamped ==
  (/\ FullV6Stream
   /\ \A k \in 1..Len(shape.items) : shape.items[k].kind = "wild"
   /\ pc = "done")
    => /\ err = NoErr
       /\ \A k \in 1..Len(lines) :
            \A j \in 1..Len(lines[k].Points) :
              /\ lines[k].Points[j].Speed = 65535
              /\ lines[k].Points[j].Width = 0
              /\ lines[k].Points[j].Direction \in 0..255
              /\ lines[k].Points[j].Pressure \in 0..255

\* the blocks of a stream that are SceneItems
SceneOnly(items) == SelectSeq(items, LAMBDA i : i.kind # "other")

\* parseStrokeData run to the end of the buffer
RECURSIVE ScanAll(_, _, _)
ScanAll(bytes, at, strokes) ==
  IF Remaining(bytes, at) > 0
    THEN ScanAll(bytes, parseStrokeStep(bytes, at, strokes).pos,
                 parseStrokeStep(bytes, at, strokes).strokes)
  ELSE strokes

\* the strokes the entry e decodes from the buffer bytes
StrokesOf(e, bytes, a) ==
  CASE e = "ParseRM" -> ScanAll(bytes, rmHeaderSize, <<>>)
    [] e = "ParseV6" -> RunAlone(NewCall(bytes), a).rm[1].Layers
    [] OTHER -> RunAlone(NewCall(bytes), a).page[1].Strokes

\* the strokes of the result: the lines of the Document ParseV6 returns, the
\* strokes of the Page the two others return
DecodedStrokes == IF entry = "ParseV6" THEN rm[1].Layers ELSE page[1].Strokes

\* a whole stream of good lines and of blocks of other types, at least one
\* of these, behind the V6 header
ValidWithOtherBlocks ==
  /\ shape.family = "stream"
  /\ shape.cut = -1
  /\ shape.hdr = HeaderV6
  /\ \A k \in 1..Len(shape.items) :
       GoodLine(shape.items[k]) \/ shape.items[k].kind = "other"
  /\ \E k \in 1..Len(shape.items) : shape.items[k].kind = "other"

\* ParseV6 and ParseRMFile pass over the blocks of other types: the strokes
\* are those of the stream without them
V6SkipsOtherBlocks ==
  (ValidWithOtherBlocks /\ entry \in V6Entries /\ pc = "done")
    => /\ err = NoErr
       /\ Len(blocks) = Len(shape.items)
       /\ DecodedStrokes
            = StrokesOf(entry, StreamBytes(HeaderV6, SceneOnly(shape.items)), arch)

\* C22: the blocks of a V6 stream whose type is not SceneItem never
\* influence the result: the strokes decoded from a valid stream that holds
\* such blocks, whatever their payload, are the strokes decoded from the
\* stream without them.
C22_OtherBlocksNeverInfluence ==
  (ValidWithOtherBlocks /\ entry \in DecoderEntries /\ pc = "done")
    => /\ err = NoErr
       /\ DecodedStrokes
            = StrokesOf(entry, StreamBytes(HeaderV6, SceneOnly(shape.items)), arch)

\* What parseSceneItemBlock reads of the value subblock of the payload p of
\* a block of version v: the offset behind its length (from), the length it
\* declares, the offset at which parseLineData stops (readTo), the offset
\* behind the length of the points subblock (points) and the length that
\* one declares.
ValueSpanOf(p, v, len, f) ==
  [from |-> len.pos, declared |-> len.val,
   points |-> f.next, pointsLen |-> U32At(p, f.at[5]),
   readTo |-> f.next + (U32At(p, f.at[5]) \div PointSize(v)) * PointSize(v)]

ValueLenOf(p) ==
  ReadU32(p, expectTag(p, ReadFields(p, 0, SceneItemFields, <<>>).next,
                       6, TAG_LENGTH4).pos)

ValueSpan(p, v) ==
  ValueSpanOf(p, v, ValueLenOf(p),
              ReadFields(p, ValueLenOf(p).pos + 1, LineFields, <<>>))

\* the blocks extractLinesFromV6Blocks got a line from
LineBlocks ==
  {k \in 1..Len(blocks) :
     /\ k < idx
     /\ blocks[k].BlockType = BLOCK_SCENE_ITEM
     /\ parseSceneItemBlock(blocks[k].Data, blocks[k].CurrentVersion, arch).line
          # <<>>}

\* the reads of a line stay inside the block payload, and the reads of its
\* points inside the declared length of the points subblock
ReadsStayInPayloadAndPoints ==
  \A k \in LineBlocks :
    LET sp == ValueSpan(blocks[k].Data, blocks[k].CurrentVersion)
    IN /\ sp.readTo <= Len(blocks[k].Data)
       /\ sp.readTo <= sp.points + sp.pointsLen

\* C23: while a SceneItem is interpreted no byte beyond a declared length is
\* read: the reads stay inside the block payload, the reads of the line item
\* inside the declared length of the value subblock, and the reads of the
\* points inside the declared length of the points subblock.
C23_ReadsStayInsideDeclaredLengths ==
  \A k \in LineBlocks :
    LET sp == ValueSpan(blocks[k].Data, blocks[k].CurrentVersion)
    IN /\ sp.readTo <= Len(blocks[k].Data)
       /\ sp.readTo <= sp.from + sp.declared
       /\ sp.readTo <= sp.points + sp.pointsLen

\* the positions of the page order whose page exists, is decoded and renders
DecodedPositions(in) ==
  {k \in 1..Len(getPageOrderAndDocDir(in.doc).order) :
     in.doc.files[getPageOrderAndDocDir(in.doc).order[k]] = "good"}

\* a conversion that got past the extraction and found pages in the order
PagesWereTried ==
  /\ conv # <<>>
  /\ conv.pc = "done"
  /\ Len(conv.order) > 0

\* C24: a page whose stream fails to decode is a failed page: it is not
\* among the converted pages and gives no page of the output, the other
\* pages are converted, and the conversion fails with "no pages were
\* successfully converted" exactly when no page converted.
C24_FailedDecodeFailsThePage ==
  PagesWereTried =>
    /\ {conv.pngFiles[a].n : a \in 1..Len(conv.pngFiles)}
         = DecodedPositions(conv.in)
    /\ \A a \in 1..Len(conv.pngFiles) : ~conv.pngFiles[a].blank
    /\ (conv.err = "no pages were successfully converted")
         <=> (DecodedPositions(conv.in) = {})

\* the strategies in their fixed order, the first one only with OCR enabled
StrategyOrder(st) ==
  IF st.enableOCR THEN <<"ocr", "image", "vector", "svg">>
  ELSE <<"image", "vector", "svg">>

\* whether the strategy s succeeds: the SVG export needs the external
\* converter as well
Succeeds(st, s) ==
  IF s = "svg" THEN st.ok["svg"] /\ st.ok["external"] ELSE st.ok[s]

IsPrefix(a, b) == Len(a) <= Len(b) /\ a = SubSeq(b, 1, Len(a))

\* C25: the strategies are tried in the fixed order OCR (when enabled),
\* image, vector, SVG: a strategy is tried only after all the earlier ones
\* failed, the first success ends the chain with success, and an error is
\* returned only when every strategy tried failed.
C25_StrategiesInFixedOrder ==
  chain # <<>> =>
    /\ IsPrefix(chain.tried, StrategyOrder(chain))
    /\ \A k \in 1..Len(chain.tried) :
         k < Len(chain.tried) => ~Succeeds(chain, chain.tried[k])
    /\ chain.pc = "done" =>
         /\ (chain.err = NoErr)
              <=> Succeeds(chain, chain.tried[Len(chain.tried)])
         /\ chain.err = NoErr => chain.files = {"pdf"}
         /\ chain.err # NoErr =>
              /\ chain.tried = StrategyOrder(chain)
              /\ \A k \in 1..Len(chain.tried) : ~Succeeds(chain, chain.tried[k])

\* the OCR rendering and the image rendering failed and the vector
\* rendering ended the chain with success
C25_Witness ==
  /\ chain # <<>>
  /\ chain.pc = "done"
  /\ chain.tried = <<"ocr", "image", "vector">>
  /\ chain.err = NoErr

\* the position in the list handed to the PDF builder of the PNG of the
\* page n of the page order
PngPosition(st, n) ==
  CHOOSE a \in 1..Len(st.pngFiles) : st.pngFiles[a].n = n

\* C26: in ConvertRmdocToSearchablePDF the PageNumber of every OCR result
\* is the 1-based position of its PNG in the list handed to the PDF
\* builder, also when earlier pages of the page order were left out.
C26_OcrTextOnItsPage ==
  (conv # <<>> /\ conv.fn = "ConvertRmdocToSearchablePDF" /\ conv.mode = "ocr") =>
    \A r \in 1..Len(conv.ocrResults) :
      conv.ocrResults[r].PageNumber
        = PngPosition(conv, conv.ocrResults[r].PageNumber)

\* what tells the strokes of the inputs apart: the color and the number of
\* points
StrokeSig(stroke) == <<stroke.Color, Len(stroke.Points)>>

\* the blocks of a V6 stream that hold a line with points
YieldsStroke(i) == i.kind \in {"line", "wild", "shortval"} /\ i.npts >= 1

ExpectedV6Sigs(items) ==
  [k \in 1..Len(SelectSeq(items, YieldsStroke)) |->
     <<ExpectedColor(SelectSeq(items, YieldsStroke)[k].color),
       SelectSeq(items, YieldsStroke)[k].npts>>]

HasPoints(l) == l.npts >= 1

RECURSIVE ExpectedFlatSigs(_)
ExpectedFlatSigs(layers) ==
  IF layers = <<>> THEN <<>>
  ELSE [k \in 1..Len(SelectSeq(Head(layers), HasPoints)) |->
          <<mapBrushColorToColor(SelectSeq(Head(layers), HasPoints)[k].color),
            SelectSeq(Head(layers), HasPoints)[k].npts>>]
       \o ExpectedFlatSigs(Tail(layers))

\* a whole stream decoded by ParseRMFile without an error
WholeDecoded ==
  /\ entry = "ParseRMFile"
  /\ shape.family \in {"stream", "flat"}
  /\ shape.cut = -1
  /\ pc = "done"
  /\ err = NoErr

\* C27: the strokes of the result keep the order of the input: for V6 the
\* order of the SceneItem blocks in the stream, for V3 and V5 the order of
\* the layers and, inside a layer, of the lines; the items that are dropped
\* never reorder the others.
C27_StrokesKeepInputOrder ==
  WholeDecoded =>
    [k \in 1..Len(page[1].Strokes) |-> StrokeSig(page[1].Strokes[k])]
      = IF shape.family = "flat" THEN ExpectedFlatSigs(shape.items)
        ELSE ExpectedV6Sigs(shape.items)

\* a two-point line, a block that is dropped and a one-point line
C27_Witness ==
  /\ WholeDecoded
  /\ shape.family = "stream"
  /\ shape.items = <<LineB, TombLine, LineA>>
  /\ Len(page[1].Strokes) = 2
  /\ Len(page[1].Strokes[1].Points) = 2
  /\ Len(page[1].Strokes[2].Points) = 1

BlockHeaderBytes == 8
VarintMaxBytes == 10

\* every turn of the block loop that does not end it consumes the header of
\* a block, and every turn of the scanning loop moves the reader on
LoopsConsume ==
  /\ (pc = "blocks" /\ pc' = "blocks") => pos' >= pos + BlockHeaderBytes
  /\ (pc = "scan" /\ pc' = "scan") => pos' > pos
  /\ (pc = "extract" /\ pc' = "extract") => idx' = idx + 1

\* readVarint stops after VarintMaxBytes bytes at most, and the point loop of
\* a line ran pointsLen / pointSize times
LoopsAreBounded ==
  /\ (entry = "readVarint" /\ pc = "done") => vres.pos <= VarintMaxBytes
  /\ \A k \in LineBlocks :
       Len(parseSceneItemBlock(blocks[k].Data, blocks[k].CurrentVersion, arch)
             .line[1].Points)
         = ValueSpan(blocks[k].Data, blocks[k].CurrentVersion).pointsLen
             \div PointSize(blocks[k].CurrentVersion)

\* C28: decoding terminates on every finite input: a turn of the block loop
\* ends the loop or consumes the 8 header bytes at least, readVarint stops
\* after 10 bytes at most, the point loop runs pointsLen / pointSize times
\* at most, and every call reaches its result.
C28_DecodingTerminates ==
  /\ [][LoopsConsume]_vars
  /\ []LoopsAreBounded
  /\ <>(pc = "done")

\* the scanning parser reached the end of a buffer that holds a stroke, and
\* the block loop the end of a stream of two blocks
C28_Witness ==
  /\ pc = "done"
  /\ \/ entry = "ParseRM" /\ page # <<>> /\ Len(page[1].Strokes) = 1
     \/ entry = "ParseRMFile" /\ Len(blocks) = 2 /\ pos = Len(data) /\ err = NoErr

\* where the elements es lead from the directory at: "." stays, ".." goes
\* up (the root is its own parent), a name goes down
RECURSIVE WalkFrom(_, _)
WalkFrom(at, es) ==
  IF es = <<>> THEN at
  ELSE IF Head(es) = <<".">> THEN WalkFrom(at, Tail(es))
  ELSE IF Head(es) = DotDot
    THEN WalkFrom(IF at = <<>> THEN at ELSE SubSeq(at, 1, Len(at) - 1), Tail(es))
  ELSE WalkFrom(Append(at, Head(es)), Tail(es))

\* the place p lies under the directory dest, dest itself left out
StrictlyUnder(p, dest) ==
  /\ Len(Elements(p)) > Len(Elements(dest))
  /\ SubSeq(Elements(p), 1, Len(Elements(dest))) = Elements(dest)
  /\ \A k \in 1..Len(Elements(p)) : Elements(p)[k] \notin {<<".">>, DotDot}

\* the name of an entry leads out of the destination
Escapes(dest, name) ==
  ~IsPrefix(Elements(dest), WalkFrom(Elements(dest), Elements(name)))

\* C29: extractZip makes no file and no directory outside the destination:
\* what it makes for an entry lies strictly under the destination, and an
\* entry whose name leads out of it makes the call return "invalid file
\* path" with nothing made for that entry or for a later one.
C29_NoWriteOutsideDest ==
  unz # <<>> =>
    /\ \A f \in unz.fs : f.by >= 1 => StrictlyUnder(f.path, unz.dest)
    /\ \A k \in 1..Len(unz.entries) :
         Escapes(unz.dest, unz.entries[k].name) =>
           /\ \A f \in unz.fs : f.by < k
           /\ unz.pc = "done" =>
                /\ unz.err # NoErr
                /\ unz.i <= k
                /\ unz.i = k => unz.err = "invalid file path"

\* a file was written, and the entry behind it, which leads to a directory
\* next to the destination whose name starts with the name of it, ended the
\* call
C29_Witness ==
  /\ unz # <<>>
  /\ unz.pc = "done"
  /\ Len(unz.entries) = 2
  /\ unz.entries[2].name = <<".", ".", "/", "x", "y", "/", "a">>
  /\ unz.err = "invalid file path"
  /\ \E f \in unz.fs : f.by = 1 /\ f.kind = "file"

\* the visits of the second run to a document that the first run downloaded
\* and converted
SecondVisits ==
  IF mg # <<>> /\ mg.run = 2
    THEN {k \in 1..Len(mg.log) :
            \E j \in 1..Len(mg.first) :
              /\ mg.first[j].i = mg.log[k].i
              /\ mg.first[j].download = "ok"
              /\ mg.first[j].convert = "ok"}
  ELSE {}

\* the second run leaves such a document alone
SecondRunSkips ==
  \A k \in SecondVisits :
    mg.log[k].download = "skipped" /\ mg.log[k].convert = "skipped"

\* with a lastModified that parses and the clock of this machine ahead of
\* it, the second run downloads and converts nothing again
IdempotentOnSoundTimes ==
  (mg # <<>> /\ ~mg.in.nodes[2].lmErr /\ mg.started > MaxMtime)
    => SecondRunSkips

\* C30: mgeta -i is idempotent: a second run on the same remote state and
\* on untouched local files neither downloads nor converts a document that
\* the first run downloaded and converted.
C30_SecondRunDoesNothing == SecondRunSkips
====
